---- MODULE Spec2Model ----
(***************************************************************************)
(* Scoped symbol table and typed expression model of loki                 *)
(* (loki/expression/symbol_types.py) and the kernel-dialect type emission *)
(* (loki/backend/maxgen.py).                                               *)
(*                                                                         *)
(* Python objects live on two heaps: `types` holds the SymbolType records *)
(* and `vars` the Scalar/Array objects; an object's identity is its index *)
(* in the heap.  `symbols[s]` is the dictionary of scope s: a function    *)
(* whose domain is the set of bound names.  A name is the sequence of its *)
(* %-separated parts, so 'item%f' is <<"item", "f">>.                      *)
(***************************************************************************)
EXTENDS Integers, Sequences, FiniteSets, TLC

VARIABLES
    symbols,      \* symbols[s]: the dictionary name -> SymbolType of scope s
    scopeParent,  \* scopeParent[s]: the enclosing scope of s, or "none"
    types,        \* heap of SymbolType records
    vars,         \* heap of Scalar / Array objects
    steps,        \* number of calls made so far
    op,           \* the last call on the symbol table: its kind and arguments
    ri,           \* the last RangeIndex(...) call: arguments and result
    em,           \* the kernel generator: its input, depth and output
    fe            \* the frontend: its input and the tree it built

allvars == <<symbols, scopeParent, types, vars, steps, op, ri, em, fe>>

-----------------------------------------------------------------------------
(* Bounds of the model *)

\* calls on the symbol table in one behaviour
MaxSteps == 3

-----------------------------------------------------------------------------
(* Values *)

\* Python's None, for object references (heap indices start at 1)
None == 0
\* the 'type' keyword was not passed to Variable(...)
Absent == -1
\* None for tuple-valued attributes (shape, dimensions)
NoneSeq == <<"None">>

Scopes == {"routine", "member", "typedef"}
\* scopes in which the translator constructs variable references
UserScopes == {"routine", "member"}
\* names of first-level variables
TopNames == {<<"item">>}
\* shapes and dimensions a caller passes
ShapeVals == {<<>>, <<"n", "m">>}

\* SymbolType(dtype, shape=..., parent=..., variables=...)
SymbolType(dtype, shape, parent, variables) ==
    [dtype |-> dtype, shape |-> shape, parent |-> parent, variables |-> variables]

\* the heaps and dictionaries as one value, threaded through nested calls
Heap == [symbols |-> symbols, types |-> types, vars |-> vars]

Last(s) == s[Len(s)]

-----------------------------------------------------------------------------
(* Symbol table (loki.types.SymbolTable) *)

\* dict.get(name, None) on the scope's own dictionary
Own(H, s, n) == IF n \in DOMAIN H.symbols[s] THEN H.symbols[s][n] ELSE None

\* lookup(name, recursive): own binding, else, if recursive, the parent chain
RECURSIVE lookupIn(_, _, _, _, _)
lookupIn(H, par, s, n, recursive) ==
    IF Own(H, s, n) # None THEN Own(H, s, n)
    ELSE IF recursive /\ par[s] # "none" THEN lookupIn(H, par, par[s], n, recursive)
    ELSE None

lookup(s, n, recursive) == lookupIn(Heap, scopeParent, s, n, recursive)

\* Scope.get_symbol_scope(name): the nearest scope on the parent chain binding name
RECURSIVE get_symbol_scope_in(_, _, _, _)
get_symbol_scope_in(H, par, s, n) ==
    IF Own(H, s, n) # None THEN s
    ELSE IF par[s] # "none" THEN get_symbol_scope_in(H, par, par[s], n)
    ELSE "none"

get_symbol_scope(s, n) == get_symbol_scope_in(Heap, scopeParent, s, n)

\* a new record on the type heap; its identity is Len(result.types)
AllocType(H, rec) == [H EXCEPT !.types = Append(@, rec)]

\* (mutant) one dictionary shared by the scopes of all routines
BindShared(H, s, n, t) ==
    [H EXCEPT !.symbols = [x \in DOMAIN @ |->
                              IF x = s \/ (s # "typedef" /\ x # "typedef")
                              THEN (n :> t) @@ @[x] ELSE @[x]]]

\* symbols[name] = value
Bind(H, s, n, t) == [H EXCEPT !.symbols[s] = (n :> t) @@ @]

\* (mutant) the placeholder is bound whether or not the name is bound already
SetDefaultOverwrites(H, s, n) ==
    LET H1 == AllocType(H, SymbolType("DEFERRED", NoneSeq, None, <<>>))
    IN  Bind(H1, s, n, Len(H1.types))

\* symbols.setdefault(name, SymbolType(DataType.DEFERRED))
SetDefaultDeferred(H, s, n) ==
    IF n \in DOMAIN H.symbols[s] THEN H
    ELSE LET H1 == AllocType(H, SymbolType("DEFERRED", NoneSeq, None, <<>>))
         IN  Bind(H1, s, n, Len(H1.types))

\* SymbolType.clone(parent=p): a new record, attributes copied
CloneWithParent(H, t, p) == AllocType(H, [H.types[t] EXCEPT !.parent = p])
\* SymbolType.clone(variables=OrderedDict())
CloneNoVariables(H, t) == AllocType(H, [H.types[t] EXCEPT !.variables = <<>>])

-----------------------------------------------------------------------------
(* Scalar, Array *)

\* Scalar.type / Array.type getter: scope.symbols[name]
TypeOfIn(H, v) == Own(H, H.vars[v].scope, H.vars[v].name)
TypeOf(v) == TypeOfIn(Heap, v)

\* (mutant) the setter keeps a binding that exists already
TypeSetterKeepsFirst(H, v, t) ==
    IF H.vars[v].name \in DOMAIN H.symbols[H.vars[v].scope] THEN H
    ELSE Bind(H, H.vars[v].scope, H.vars[v].name, t)

\* (mutant) the setter writes to the outermost enclosing scope
TypeSetterOutermost(H, v, t) ==
    Bind(H, IF H.vars[v].scope = "member" THEN "routine" ELSE H.vars[v].scope,
         H.vars[v].name, t)

\* Scalar.type / Array.type setter: scope.symbols[name] = value
TypeSetter(H, v, t) == Bind(H, H.vars[v].scope, H.vars[v].name, t)

\* a new object on the variable heap; its identity is Len(result.vars)
NewObj(H, cls, name, scope, parent, dims) ==
    [H EXCEPT !.vars = Append(@, [cls |-> cls, name |-> name, scope |-> scope,
                                   parent |-> parent, dims |-> dims])]

\* (mutant) Scalar.__init__ registers no placeholder for an untyped name
ScalarInitNoPlaceholder(H, name, scope, type, parent) ==
    LET H1 == NewObj(H, "Scalar", name, scope, parent, NoneSeq)
    IN  IF type = None THEN H1 ELSE TypeSetter(H1, Len(H1.vars), type)

\* Scalar.__init__(name, scope, type, parent)
ScalarInit(H, name, scope, type, parent) ==
    LET H1 == NewObj(H, "Scalar", name, scope, parent, NoneSeq)
    IN  IF type = None THEN SetDefaultDeferred(H1, scope, name)
        ELSE TypeSetter(H1, Len(H1.vars), type)

\* Array.__init__(name, scope, type, parent, dimensions)
ArrayInit(H, name, scope, type, parent, dims) ==
    LET H1 == NewObj(H, "Array", name, scope, parent, dims)
    IN  IF type = None THEN SetDefaultDeferred(H1, scope, name)
        ELSE TypeSetter(H1, Len(H1.vars), type)

-----------------------------------------------------------------------------
(* Variable: the factory *)

RECURSIVE VariableNew(_, _, _, _, _, _, _)
RECURSIVE instantiate_derived_type_variables(_, _, _)
RECURSIVE InstantiateFields(_, _, _, _, _)

\* the re-instantiation test of instantiate_derived_type_variables
NeedsInstantiation(H, obj) ==
    LET t == TypeOfIn(H, obj)
    IN  /\ t # None
        /\ H.types[t].dtype = "DERIVED_TYPE"
        /\ H.types[t].variables # <<>>
        /\ H.vars[H.types[t].variables[1].var].scope # H.vars[obj].scope

\* (mutant) the field variable is given the definition's own type record
FieldTypeShared(H, v, obj) == [heap |-> H, vtype |-> TypeOfIn(H, v)]

\* vtype = v.type.clone(parent=obj)
FieldType(H, v, obj) ==
    LET H1 == CloneWithParent(H, TypeOfIn(H, v), obj)
    IN  [heap |-> H1, vtype |-> Len(H1.types)]

\* the loop `for k, v in variables.items()`, from its i-th item on
InstantiateFields(H, par, obj, variables, i) ==
    IF i > Len(variables) THEN H
    ELSE LET k  == variables[i].key
             v  == variables[i].var
             ft == FieldType(H, v, obj)
             H1 == ft.heap
             vname == Append(H1.vars[obj].name, Last(H1.vars[v].name))
             H2 == VariableNew(H1, par, vname, H1.vars[obj].scope, ft.vtype, NoneSeq, None)
             H3 == [H2 EXCEPT !.types[TypeOfIn(H2, obj)].variables =
                                  Append(@, [key |-> k, var |-> Len(H1.vars) + 1])]
         IN  InstantiateFields(H3, par, obj, variables, i + 1)

instantiate_derived_type_variables(H, par, obj) ==
    IF NeedsInstantiation(H, obj)
    THEN LET variables == H.types[TypeOfIn(H, obj)].variables
             H1 == CloneNoVariables(H, TypeOfIn(H, obj))
             H2 == TypeSetter(H1, obj, Len(H1.types))
         IN  InstantiateFields(H2, par, obj, variables, 1)
    ELSE H

\* len(shape) == 0 or shape is None
NoShape(shape) == shape = NoneSeq \/ Len(shape) = 0

\* the type Variable.__new__ resolves: kwargs.get('type', lookup(name, recursive=False))
ResolvedType(H, par, name, scope, targ) ==
    IF targ = Absent THEN lookupIn(H, par, scope, name, FALSE) ELSE targ

\* (mutant) the decision looks at the dimensions only
IsScalarCaseDimsOnly(H, par, name, scope, targ, dims) == dims = NoneSeq

\* the Scalar / Array decision of Variable.__new__
IsScalarCase(H, par, name, scope, targ, dims) ==
    LET _type == ResolvedType(H, par, name, scope, targ)
        shape == IF _type # None THEN H.types[_type].shape ELSE NoneSeq
    IN  dims = NoneSeq /\ NoShape(shape)

\* Variable.__new__(name, scope, type, dimensions, parent)
VariableNew(H, par, name, scope, targ, dims, parent) ==
    LET _type == ResolvedType(H, par, name, scope, targ)
        H1 == IF IsScalarCase(H, par, name, scope, targ, dims)
              THEN ScalarInit(H, name, scope, _type, parent)
              ELSE ArrayInit(H, name, scope, _type, parent, dims)
    IN  instantiate_derived_type_variables(H1, par, Len(H1.vars))

-----------------------------------------------------------------------------
(* Initial state: a parsed type definition with fields f (scalar) and g    *)
(* (array of shape (n)), a routine scope and its member routine's scope,   *)
(* both still empty.                                                       *)

\* the derived type declared by the type definition; its fields are the
\* variables 1 and 2 of the type definition's scope
DefType == 3

InitTypes == << SymbolType("REAL", NoneSeq, None, <<>>),
                SymbolType("REAL", <<"n">>, None, <<>>),
                SymbolType("DERIVED_TYPE", NoneSeq, None,
                           << [key |-> "f", var |-> 1], [key |-> "g", var |-> 2] >>) >>

InitVars == << [cls |-> "Scalar", name |-> <<"f">>, scope |-> "typedef",
                parent |-> None, dims |-> NoneSeq],
               [cls |-> "Array", name |-> <<"g">>, scope |-> "typedef",
                parent |-> None, dims |-> <<"n">>] >>

NoOp == [kind |-> "init", name |-> <<>>, scope |-> "none", targ |-> None,
         dims |-> NoneSeq, obj |-> None]
NoRange == [n |-> 0]
NoEmit == [n |-> 0]
NoFront == [n |-> 0]

InitSymbols ==
    /\ symbols = [s \in Scopes |->
                     IF s = "typedef" THEN (<<"f">> :> 1) @@ (<<"g">> :> 2) ELSE << >>]
    /\ scopeParent = [s \in Scopes |-> IF s = "member" THEN "routine" ELSE "none"]
    /\ types = InitTypes
    /\ vars = InitVars
    /\ steps = 0
    /\ op = NoOp

Init == InitSymbols /\ ri = NoRange /\ em = NoEmit /\ fe = NoFront

-----------------------------------------------------------------------------
(* Calls on the symbol table *)

\* The type a caller passes: None, an existing record, or a SymbolType constructed
\* for the call (the k-th of FreshSeq, written Len(types) + k)
FreshSeq == << SymbolType("INTEGER", NoneSeq, None, <<>>),
               SymbolType("REAL", <<"n">>, None, <<>>) >>
Fresh(k) == Len(types) + k
WithArg(H, c) == IF c > Len(H.types) THEN AllocType(H, FreshSeq[c - Len(H.types)]) ELSE H
ArgId(H, c) == IF c > Len(H.types) THEN Len(H.types) + 1 ELSE c

\* other.type of a first-level variable of a routine, passed on as type=
SharedTypes ==
    { TypeOf(v) : v \in { w \in DOMAIN vars : Len(vars[w].name) = 1
                                              /\ vars[w].scope \in UserScopes } } \ {None}

ScalarArgs == {None, DefType, Fresh(1)}
ArrayArgs == {None, Fresh(2)}
\* (type, dimensions) of a Variable(...) call
VariableArgs ==
    ({Absent, None, DefType, Fresh(1), Fresh(2)} \cup SharedTypes) \X {NoneSeq}
    \cup ({Absent, Fresh(1)} \X {<<"i">>})
SetArgs == {DefType, Fresh(2)} \cup SharedTypes

Commit(H) ==
    /\ steps < MaxSteps
    /\ steps' = steps + 1
    /\ symbols' = H.symbols
    /\ types' = H.types
    /\ vars' = H.vars
    /\ UNCHANGED <<scopeParent, ri, em, fe>>

Call(kind, n, s, t, d, obj) ==
    [kind |-> kind, name |-> n, scope |-> s, targ |-> t, dims |-> d, obj |-> obj]

\* Scalar(name=n, scope=s, type=c)
NewScalar(n, s, c) ==
    LET H0 == WithArg(Heap, c)
        t  == IF c = None THEN None ELSE ArgId(Heap, c)
        H1 == ScalarInit(H0, n, s, t, None)
    IN  /\ Commit(H1)
        /\ op' = Call("Scalar", n, s, t, NoneSeq, Len(H1.vars))

\* Array(name=n, scope=s, type=c, dimensions=d)
NewArray(n, s, c, d) ==
    LET H0 == WithArg(Heap, c)
        t  == IF c = None THEN None ELSE ArgId(Heap, c)
        H1 == ArrayInit(H0, n, s, t, None, d)
    IN  /\ Commit(H1)
        /\ op' = Call("Array", n, s, t, d, Len(H1.vars))

\* Variable(name=n, scope=s, dimensions=d [, type=c])
NewVariable(n, s, c, d) ==
    LET H0 == WithArg(Heap, c)
        t  == IF c \in {None, Absent} THEN c ELSE ArgId(Heap, c)
        H1 == VariableNew(H0, scopeParent, n, s, t, d, None)
    IN  /\ Commit(H1)
        /\ op' = Call("Variable", n, s, t, d, Len(H0.vars) + 1)

\* a name that is a component of a derived-type variable, or a field of a definition
IsFieldName(s, n) ==
    \E t \in DOMAIN types : \E i \in DOMAIN types[t].variables :
        LET w == vars[types[t].variables[i].var] IN w.scope = s /\ w.name = n

\* v.type = c
SetType(v, c) ==
    LET H0 == WithArg(Heap, c)
        t  == ArgId(Heap, c)
        H1 == TypeSetter(H0, v, t)
    IN  /\ H0.types[t].dtype = "DERIVED_TYPE" => ~IsFieldName(vars[v].scope, vars[v].name)
        /\ Commit(H1)
        /\ op' = Call("settype", vars[v].name, vars[v].scope, t, NoneSeq, v)

\* v.shape = shp  (Array.shape setter: self.type.shape = value)
SetShape(v, shp) ==
    /\ vars[v].cls = "Array"
    /\ TypeOf(v) # None
    /\ Commit([Heap EXCEPT !.types[TypeOf(v)].shape = shp])
    /\ op' = Call("setshape", vars[v].name, vars[v].scope, TypeOf(v), shp, v)

Next ==
    \/ \E n \in TopNames, s \in UserScopes, c \in ScalarArgs : NewScalar(n, s, c)
    \/ \E n \in TopNames, s \in UserScopes, c \in ArrayArgs : NewArray(n, s, c, <<"i">>)
    \/ \E n \in TopNames, s \in UserScopes, a \in VariableArgs :
           NewVariable(n, s, a[1], a[2])
    \/ \E v \in DOMAIN vars, c \in SetArgs : SetType(v, c)
    \/ \E v \in DOMAIN vars, shp \in ShapeVals : SetShape(v, shp)

Spec == Init /\ [][Next]_allvars

\* two routines translated side by side: the scope called member is either the
\* member routine of the first or a routine of its own, with no parent
InitRoutines ==
    \/ Init
    \/ /\ symbols = [s \in Scopes |->
                         IF s = "typedef" THEN (<<"f">> :> 1) @@ (<<"g">> :> 2) ELSE << >>]
       /\ scopeParent = [s \in Scopes |-> "none"]
       /\ types = InitTypes /\ vars = InitVars /\ steps = 0 /\ op = NoOp
       /\ ri = NoRange /\ em = NoEmit /\ fe = NoFront

SpecRoutines == InitRoutines /\ [][Next]_allvars

-----------------------------------------------------------------------------
(* RangeIndex construction: symbol_types.py, class RangeIndex and Literal.   *)
(* A Python value is a record of its class, its printed value and, for a     *)
(* RangeIndex, the identity of the object.                                   *)

Val(py, v, id) == [py |-> py, v |-> v, id |-> id]
PyNone == Val("NoneType", "None", 0)
ScalarN == Val("Scalar", "n", 0)

\* isinstance(x, pmbl.Expression): the classes of this module deriving from it
Expressions ==
    {"Scalar", "Array", "RangeIndex", "IntLiteral", "FloatLiteral", "LogicLiteral",
     "StringLiteral", "LiteralList", "InlineCall", "Cast"}
isExpression(x) == x.py \in Expressions

\* str.lower() on the strings used here
Lower(str) ==
    IF str = ".TRUE." THEN ".true."
    ELSE IF str = "IN" THEN "in"
    ELSE IF str = ".AND." THEN ".and."
    ELSE IF str = ".EQ." THEN ".eq."
    ELSE IF str = ".NOT." THEN ".not."
    ELSE IF str = ".EQV." THEN ".eqv."
    ELSE str

\* StringLiteral.__init__: a quoted value loses its quotes
Unquote(str) == IF str = "'a'" THEN "a" ELSE str

\* Literal._from_literal(value) without a type keyword; a value that is neither
\* int, float nor str falls to pymbolic's parser
Literal(value) ==
    IF value.py = "int" THEN Val("IntLiteral", value.v, 0)
    ELSE IF value.py = "float" THEN Val("FloatLiteral", value.v, 0)
    ELSE IF value.py = "str"
         THEN IF Lower(value.v) \in {".true.", "true", ".false.", "false"}
              THEN Val("LogicLiteral",
                       IF Lower(value.v) \in {"true", ".true."} THEN "True" ELSE "False", 0)
              ELSE Val("StringLiteral", Unquote(value.v), 0)
    ELSE Val("pymbolic.parse", value.v, 0)

MaxArgs == 3
Keys == {"lower", "upper", "step"}

\* kwargs.get(k, default)
KwGet(kwargs, k, default) == IF k \in DOMAIN kwargs THEN kwargs[k] ELSE default

\* RangeIndex._args2bounds(*args, **kwargs)
args2bounds(args, kwargs) ==
    LET lower == IF Len(args) \in {2, 3} THEN args[1] ELSE PyNone
        upper == IF Len(args) = 1 THEN args[1]
                 ELSE IF Len(args) \in {2, 3} THEN args[2] ELSE PyNone
        step  == IF Len(args) = 3 THEN args[3] ELSE PyNone
    IN  [lower |-> KwGet(kwargs, "lower", lower),
         upper |-> KwGet(kwargs, "upper", upper),
         step  |-> KwGet(kwargs, "step", step)]

\* RangeIndex.__new__ on the heap R of range objects
RangeIndexNew(R, args, kwargs) ==
    LET b == args2bounds(args, kwargs)
    IN  IF b.upper # PyNone /\ b.lower = PyNone /\ b.step = PyNone
        THEN [ranges |-> R,
              result |-> IF isExpression(b.upper) THEN b.upper ELSE Literal(b.upper)]
        ELSE [ranges |-> Append(R, b), result |-> Val("RangeIndex", "", Len(R) + 1)]

\* RangeIndex.__init__(self, *args, **kwargs)
RangeIndexInit(R, self, args, kwargs) == [R EXCEPT ![self.id] = args2bounds(args, kwargs)]

\* RangeIndex(*args, **kwargs): __new__, then __init__ on what it returned if
\* that is a RangeIndex
RangeIndexCall(R, args, kwargs) ==
    LET r == RangeIndexNew(R, args, kwargs)
    IN  IF r.result.py = "RangeIndex"
        THEN [r EXCEPT !.ranges = RangeIndexInit(r.ranges, r.result, args, kwargs)]
        ELSE r

\* a range built earlier as RangeIndex(1, n), and a reference to it
EarlierRanges == << [lower |-> Val("int", "1", 0), upper |-> ScalarN, step |-> PyNone] >>
Range1 == Val("RangeIndex", "", 1)

PositionalVals ==
    {PyNone, Val("int", "0", 0), Val("int", "5", 0), Val("float", "1.5", 0),
     Val("str", ".TRUE.", 0), Val("str", "'a'", 0), ScalarN, Range1}
KeywordVals == {PyNone, Val("int", "2", 0), ScalarN, Range1}
ArgLists == UNION { [1..k -> PositionalVals] : k \in 0..MaxArgs }
KwArgs == UNION { [K -> KeywordVals] : K \in SUBSET Keys }

InitRange ==
    /\ InitSymbols /\ em = NoEmit /\ fe = NoFront
    /\ ri \in { [n |-> 1, args |-> a, kwargs |-> k, ranges |-> EarlierRanges,
                 result |-> PyNone] : a \in ArgLists, k \in KwArgs }

Construct ==
    /\ ri.n = 1
    /\ LET r == RangeIndexCall(ri.ranges, ri.args, ri.kwargs)
       IN  ri' = [ri EXCEPT !.n = 2, !.ranges = r.ranges, !.result = r.result]
    /\ UNCHANGED <<symbols, scopeParent, types, vars, steps, op, em, fe>>

NextRange == Construct

SpecRange == InitRange /\ [][NextRange]_allvars

-----------------------------------------------------------------------------
(* Kernel-dialect type emission: backend/maxgen.py.  The output is the list  *)
(* of the words of the emitted text.                                          *)

\* str(kind)
Str(kind) == kind.v

\* raise ValueError(str(_type)): the exception and the type its message names
ValueError(type) == <<"ValueError", type.dtype>>

\* maxj_local_type with a default in place of the error
maxj_local_typeWithDefault(type) ==
    IF type.dtype = "LOGICAL" THEN <<"boolean">>
    ELSE IF type.dtype = "INTEGER" THEN <<"int">>
    ELSE IF type.dtype = "REAL"
         THEN IF Str(type.kind) \in {"real32"} THEN <<"float">> ELSE <<"double">>
    ELSE <<"Object">>

maxj_local_type(type) ==
    IF type.dtype = "LOGICAL" THEN <<"boolean">>
    ELSE IF type.dtype = "INTEGER" THEN <<"int">>
    ELSE IF type.dtype = "REAL"
         THEN IF Str(type.kind) \in {"real32"} THEN <<"float">> ELSE <<"double">>
    ELSE ValueError(type)

maxj_dfevar_typeAlwaysDouble(type) ==
    IF type.dtype = "LOGICAL" THEN <<"dfeBool()">>
    ELSE IF type.dtype = "INTEGER" THEN <<"dfeInt(32)">>
    ELSE IF type.dtype = "REAL" THEN <<"dfeFloat(11, 53)">>
    ELSE ValueError(type)

maxj_dfevar_type(type) ==
    IF type.dtype = "LOGICAL" THEN <<"dfeBool()">>
    ELSE IF type.dtype = "INTEGER" THEN <<"dfeInt(32)">>
    ELSE IF type.dtype = "REAL"
         THEN IF Str(type.kind) \in {"real32"}
              THEN <<"dfeFloat(8, 24)">> ELSE <<"dfeFloat(11, 53)">>
    ELSE ValueError(type)

\* MaxjCodegen.visit_SymbolType(o)
visit_SymbolType(o) ==
    IF o.dtype = "DERIVED_TYPE" THEN <<"DFEStructType", o.name>>
    ELSE IF o.dfevar THEN maxj_dfevar_type(o)
    ELSE maxj_local_type(o)

DataTypes == {"LOGICAL", "INTEGER", "REAL", "CHARACTER", "DERIVED_TYPE", "DEFERRED"}
Kinds ==
    {PyNone, Val("str", "real32", 0), Val("Scalar", "real32", 0), Val("str", "REAL32", 0),
     Val("str", "real64", 0), Val("Scalar", "jprb", 0), Val("IntLiteral", "4", 0),
     Val("IntLiteral", "8", 0)}
TypeNames == {"None", "my_struct"}

InitEmit ==
    /\ InitSymbols /\ ri = NoRange /\ fe = NoFront
    /\ em \in { [n |-> 1, type |-> [dtype |-> d, kind |-> k, dfevar |-> f, name |-> nm],
                 out |-> << >>] :
                d \in DataTypes, k \in Kinds, f \in BOOLEAN, nm \in TypeNames }

Emit ==
    /\ em.n = 1
    /\ em' = [em EXCEPT !.n = 2, !.out = visit_SymbolType(em.type)]
    /\ UNCHANGED <<symbols, scopeParent, types, vars, steps, op, ri, fe>>

NextEmit == Emit

SpecEmit == InitEmit /\ [][NextEmit]_allvars

-----------------------------------------------------------------------------
(* Kernel statement emission: backend/maxgen.py, MaxjCodegen.visit_Statement *)
(* and MaxjCodeMapper.  An expression is a record of its class, its name,    *)
(* its subscripts and its pointer flag; text is a list of words.             *)

Ref(cls, name, dims, pointer) == [cls |-> cls, name |-> name, dims |-> dims, pointer |-> pointer]

\* MaxjCodegen.indent: two blanks per level
Indent(depth) == [i \in 1..depth |-> "  "]

\* every subscript in brackets
Brackets(dims) == [i \in 1..Len(dims) |-> "[" \o dims[i] \o "]"]

\* MaxjCodeMapper.map_scalar / map_array for a variable without parent
maxjsymgen(expr) ==
    IF expr.cls = "Array" THEN <<expr.name>> \o Brackets(expr.dims)
    ELSE (IF expr.pointer THEN <<"*">> ELSE << >>) \o <<expr.name>>

\* MaxjCodegen.visit_Comment
visit_Comment(depth, c) == Indent(depth) \o <<"//", c>>

visit_StatementPlain(depth, o) ==
    Indent(depth) \o maxjsymgen(o.target) \o <<"=">> \o maxjsymgen(o.expr) \o <<";\n">>
      \o (IF o.comment # "None" THEN <<"  ">> \o visit_Comment(depth, o.comment) ELSE << >>)

\* MaxjCodegen.visit_Statement
visit_Statement(depth, o) ==
    Indent(depth)
      \o (IF o.target.cls = "Array"
          THEN maxjsymgen(o.target) \o <<"<==">> \o maxjsymgen(o.expr) \o <<";\n">>
          ELSE maxjsymgen(o.target) \o <<"=">> \o maxjsymgen(o.expr) \o <<";\n">>)
      \o (IF o.comment # "None" THEN <<"  ">> \o visit_Comment(depth, o.comment) ELSE << >>)

Targets ==
    {Ref("Scalar", "scalar", << >>, FALSE), Ref("Scalar", "ptr", << >>, TRUE),
     Ref("Array", "vector", <<"i">>, FALSE), Ref("Array", "matrix", <<"i", "j">>, FALSE),
     Ref("Array", "vector", << >>, FALSE)}
Exprs == Targets \cup {Ref("IntLiteral", "1", << >>, FALSE)}
StmtComments == {"None", "inline"}
MaxDepth == 2

InitStmt ==
    /\ InitSymbols /\ ri = NoRange /\ fe = NoFront
    /\ em \in { [n |-> 1, depth |-> d, out |-> << >>,
                 stmt |-> [target |-> t, expr |-> e, comment |-> c]] :
                d \in 0..MaxDepth, t \in Targets, e \in Exprs, c \in StmtComments }

EmitStatement ==
    /\ em.n = 1
    /\ em' = [em EXCEPT !.n = 2, !.out = visit_Statement(em.depth, em.stmt)]
    /\ UNCHANGED <<symbols, scopeParent, types, vars, steps, op, ri, fe>>

NextStmt == EmitStatement

SpecStmt == InitStmt /\ [][NextStmt]_allvars

-----------------------------------------------------------------------------
(* IR post-processing passes: frontend/util.py.  A sibling sequence is a     *)
(* list of nodes; a node records its kind, the first and last line of its    *)
(* source (0, 0 without source), its identity, and by identity the comment   *)
(* and pragma attached to it and the comments a block holds.                 *)

IRNode(kind, l0, l1) ==
    [kind |-> kind, l0 |-> l0, l1 |-> l1, id |-> 0, comment |-> 0, pragma |-> 0,
     block |-> << >>]

\* PatternFinder(pattern=(k1, k2)): the positions where the pattern starts
match_indices(k1, k2, seq) ==
    { i \in 1..(Len(seq) - 1) : seq[i].kind = k1 /\ seq[i + 1].kind = k2 }

\* NestedTransformer(mapper).visit(ir) on a sibling sequence: the nodes at
\* DOMAIN repl are replaced, those at del are removed
RECURSIVE NestedTransformer(_, _, _, _)
NestedTransformer(seq, repl, del, i) ==
    IF i > Len(seq) THEN << >>
    ELSE (IF i \in del THEN << >>
          ELSE IF i \in DOMAIN repl THEN <<repl[i]>> ELSE <<seq[i]>>)
         \o NestedTransformer(seq, repl, del, i + 1)

\* (mutant) a comment on the line after the node's last line is merged as well
inline_commentsNextLine(ir) ==
    LET pairs  == match_indices("Statement", "Comment", ir)
                    \cup match_indices("Declaration", "Comment", ir)
        merged == { i \in pairs : /\ ir[i].l0 # 0 /\ ir[i + 1].l0 # 0
                                  /\ ir[i + 1].l0 \in {ir[i].l1, ir[i].l1 + 1} }
    IN  NestedTransformer(ir, [i \in merged |-> [ir[i] EXCEPT !.comment = ir[i + 1].id]],
                          { i + 1 : i \in merged }, 1)

\* inline_comments(ir)
inline_comments(ir) ==
    LET pairs  == match_indices("Statement", "Comment", ir)
                    \cup match_indices("Declaration", "Comment", ir)
        merged == { i \in pairs : /\ ir[i].l0 # 0 /\ ir[i + 1].l0 # 0
                                  /\ ir[i + 1].l0 = ir[i].l1 }
    IN  NestedTransformer(ir, [i \in merged |-> [ir[i] EXCEPT !.comment = ir[i + 1].id]],
                          { i + 1 : i \in merged }, 1)

\* (mutant) only the first run of Comments is found
CommentGroupsFirstOnly(ir) ==
    { g \in (DOMAIN ir) \X (DOMAIN ir) :
        /\ g[1] < g[2]
        /\ \A i \in g[1]..g[2] : ir[i].kind = "Comment"
        /\ g[1] = 1 \/ ir[g[1] - 1].kind # "Comment"
        /\ g[2] = Len(ir) \/ ir[g[2] + 1].kind # "Comment"
        /\ \A i \in 1..(g[1] - 1) : ir[i].kind # "Comment" }

\* SequenceFinder(node_type=Comment): first and last position of every run of
\* two or more Comments
CommentGroups(ir) ==
    { g \in (DOMAIN ir) \X (DOMAIN ir) :
        /\ g[1] < g[2]
        /\ \A i \in g[1]..g[2] : ir[i].kind = "Comment"
        /\ g[1] = 1 \/ ir[g[1] - 1].kind # "Comment"
        /\ g[2] = Len(ir) \/ ir[g[2] + 1].kind # "Comment" }

CommentBlock(ir, g) ==
    LET sourced == \A i \in g[1]..g[2] : ir[i].l0 # 0
    IN  [kind |-> "CommentBlock",
         l0 |-> IF sourced THEN ir[g[1]].l0 ELSE 0,
         l1 |-> IF sourced THEN ir[g[2]].l1 ELSE 0,
         id |-> ir[g[1]].id, comment |-> 0, pragma |-> 0,
         block |-> [i \in 1..(g[2] - g[1] + 1) |-> ir[g[1] + i - 1].id]]

cluster_comments(ir) ==
    LET groups == CommentGroups(ir)
        first  == { g[1] : g \in groups }
    IN  NestedTransformer(ir,
            [i \in first |-> CommentBlock(ir, CHOOSE g \in groups : g[1] = i)],
            UNION { (g[1] + 1)..g[2] : g \in groups }, 1)

inline_pragmas(ir) ==
    LET pairs == match_indices("Pragma", "Declaration", ir)
                   \cup match_indices("Pragma", "CallStatement", ir)
                   \cup match_indices("Pragma", "Loop", ir)
    IN  NestedTransformer(ir,
            [j \in { i + 1 : i \in pairs } |-> [ir[j] EXCEPT !.pragma = ir[j - 1].id]],
            pairs, 1)

Passes == {"inline_comments", "cluster_comments", "inline_pragmas"}

ApplyPass(pass, ir) ==
    IF pass = "inline_comments" THEN inline_comments(ir)
    ELSE IF pass = "cluster_comments" THEN cluster_comments(ir)
    ELSE inline_pragmas(ir)

MaxSiblings == 3

\* the nodes a parsed source gives: statements of one or two lines, comments on
\* line 1 or 2 or without source
NodeForms ==
    {IRNode("Statement", 1, 1), IRNode("Statement", 1, 2), IRNode("Statement", 0, 0),
     IRNode("Declaration", 1, 1), IRNode("Comment", 1, 1), IRNode("Comment", 2, 2),
     IRNode("Comment", 0, 0), IRNode("Pragma", 1, 1), IRNode("CallStatement", 2, 2),
     IRNode("Loop", 2, 3)}

\* sibling sequences: every node is an object of its own, and no two comments
\* start on the same source line
Siblings ==
    { [i \in DOMAIN f |-> [f[i] EXCEPT !.id = i]] :
        f \in { g \in UNION { [1..k -> NodeForms] : k \in 1..MaxSiblings } :
                  \A i, j \in DOMAIN g :
                      (i # j /\ g[i].kind = "Comment" /\ g[j].kind = "Comment"
                         /\ g[i].l0 # 0) => g[i].l0 # g[j].l0 } }

InitPass ==
    /\ InitSymbols /\ ri = NoRange /\ em = NoEmit
    /\ fe \in { [n |-> 1, pass |-> p, ir |-> t, once |-> << >>, twice |-> << >>] :
                p \in Passes, t \in Siblings }

RunPass ==
    /\ fe.n = 1
    /\ fe' = [fe EXCEPT !.n = 2, !.once = ApplyPass(fe.pass, fe.ir)]
    /\ UNCHANGED <<symbols, scopeParent, types, vars, steps, op, ri, em>>

RunPassAgain ==
    /\ fe.n = 2
    /\ fe' = [fe EXCEPT !.n = 3, !.twice = ApplyPass(fe.pass, fe.once)]
    /\ UNCHANGED <<symbols, scopeParent, types, vars, steps, op, ri, em>>

NextPass == RunPass \/ RunPassAgain

SpecPass == InitPass /\ [][NextPass]_allvars

\* longer sibling sequences for the clustering of comments: the node at position
\* i is on source line i, or has no source
MaxCommentSiblings == 5
LineForms == {"Comment", "Comment without source", "Statement", "Pragma"}
LineNode(form, i) ==
    IF form = "Comment without source" THEN [IRNode("Comment", 0, 0) EXCEPT !.id = i]
    ELSE [IRNode(form, i, i) EXCEPT !.id = i]
CommentSiblings ==
    UNION { { [i \in 1..k |-> LineNode(f[i], i)] : f \in [1..k -> LineForms] } :
              k \in 1..MaxCommentSiblings }

InitCluster ==
    /\ InitSymbols /\ ri = NoRange /\ em = NoEmit
    /\ fe \in { [n |-> 1, pass |-> "cluster_comments", ir |-> t, once |-> << >>,
                  twice |-> << >>] : t \in CommentSiblings }

SpecCluster == InitCluster /\ [][NextPass]_allvars

-----------------------------------------------------------------------------
(* The kernel generator MaxjCodegen and the manager generator               *)
(* MaxjManagerCodegen: backend/maxgen.py.  A generator call gives the lines  *)
(* of its text, the values its depth took, the depth it ends with, and       *)
(* whether it raised.  A line records the node it comes from, the depth of   *)
(* its indentation, its words, and the stream or value it binds.             *)

\* a declared variable: name, class, type.intent, type.dfestream, initial.name;
\* its type.dtype is REAL unless said otherwise
DeclVar(name, cls, intent, dfestream, initial) ==
    [name |-> name, cls |-> cls, intent |-> intent, dfestream |-> dfestream,
     initial |-> initial, dtype |-> "REAL"]

\* base_type = self.visit(v.type) of type_and_stream raises for the type of v
BaseTypeFails(v) ==
    visit_SymbolType([dtype |-> v.dtype, kind |-> PyNone, dfevar |-> FALSE,
                      name |-> "None"])[1] = "ValueError"

NoStream == [op |-> "None", key |-> "None"]
Line(id, depth, text, stream) == [id |-> id, depth |-> depth, text |-> text, stream |-> stream]
Returned(lines, trace, depth) ==
    [lines |-> lines, trace |-> trace, depth |-> depth, raised |-> "None"]
Raised(error, trace, depth) ==
    [lines |-> << >>, trace |-> trace, depth |-> depth, raised |-> error]

\* MaxjCodegen.type_and_stream(v, is_input): the stream or value bound to v
type_and_stream(v, is_input) ==
    IF is_input
    THEN IF v.intent # "None" /\ Lower(v.intent) = "in"
         THEN [op |-> IF v.cls = "Array" \/ v.dfestream THEN "io.input" ELSE "io.scalarInput",
               key |-> v.name]
         ELSE IF v.initial # "None" THEN [op |-> "initial", key |-> v.initial]
         ELSE [op |-> "newInstance", key |-> "this"]
    ELSE IF v.intent # "None" /\ Lower(v.intent) \in {"inout", "out"}
         THEN [op |-> IF v.cls = "Array" \/ v.dfestream THEN "io.output" ELSE "io.scalarOutput",
               key |-> v.name]
         ELSE NoStream

\* the nested parameterized type of v (types[-1] of type_and_stream)
StreamType(v) == IF v.cls = "Array" THEN "DFEVector<DFEVar>" ELSE "DFEVar"

\* an IR node: its kind, identity (path from the root) and the fields the
\* generator reads
IR(kind, spec, body, variables, parameter, arguments) ==
    [kind |-> kind, id |-> << >>, spec |-> spec, body |-> body, variables |-> variables,
     parameter |-> parameter, arguments |-> arguments]
IRLeaf(kind) == IR(kind, << >>, << >>, << >>, FALSE, << >>)

visit_NodeSilent(o, d) == Returned(<< >>, << >>, d)

\* MaxjCodegen.visit_Node: the marker of a node kind without handler
visit_Node(o, d) ==
    Returned(<<Line(o.id, d, Indent(d) \o <<"// <" \o o.kind \o ">">>, NoStream)>>, << >>, d)

\* MaxjCodegen.visit_Declaration
visit_Declaration(o, d) ==
    IF o.parameter THEN Returned(<< >>, << >>, d)
    ELSE IF \E i \in DOMAIN o.variables : BaseTypeFails(o.variables[i])
         THEN Raised("ValueError", << >>, d)
    ELSE Returned([i \in DOMAIN o.variables |->
                      Line(o.id, d,
                           Indent(d) \o <<StreamType(o.variables[i]), o.variables[i].name, "=">>,
                           type_and_stream(o.variables[i], TRUE))],
                  << >>, d)

\* the statement of every Statement node of the model
TheStatement ==
    [target |-> Ref("Array", "vector", <<"i">>, FALSE),
     expr |-> Ref("Scalar", "scalar", << >>, FALSE), comment |-> "None"]

\* FindNodes(Import).visit(o.spec)
Imports(spec) == SelectSeq(spec, LAMBDA n : n.kind = "Import")

\* the arguments whose outflow statement visit_Subroutine builds; the intent
\* of every argument is lowered, which fails on None
OutflowArgs(arguments) ==
    SelectSeq(arguments, LAMBDA v : Lower(v.intent) \in {"inout", "out"})

RECURSIVE visit(_, _), visit_tuple(_, _, _)

visit_LoopNoLeave(o, d) ==
    LET body == visit_tuple(o.body, d + 1, 1)
    IN  IF body.raised # "None" THEN Raised(body.raised, <<d + 1>> \o body.trace, body.depth)
        ELSE Returned(<<Line(o.id, body.depth, Indent(body.depth) \o <<"for", "{">>, NoStream)>>
                        \o body.lines
                        \o <<Line(o.id, body.depth, Indent(body.depth) \o <<"}">>, NoStream)>>,
                      <<d + 1>> \o body.trace, body.depth)

\* (mutant) visit_Loop that puts the depth back when its body raises
visit_LoopRestoring(o, d) ==
    LET body == visit_tuple(o.body, d + 1, 1)
        dd   == body.depth - 1
    IN  IF body.raised # "None" THEN Raised(body.raised, <<d + 1>> \o body.trace \o <<d>>, d)
        ELSE Returned(<<Line(o.id, dd, Indent(dd) \o <<"for", "{">>, NoStream)>>
                        \o body.lines
                        \o <<Line(o.id, dd, Indent(dd) \o <<"}">>, NoStream)>>,
                      <<d + 1>> \o body.trace \o <<dd>>, dd)

\* MaxjCodegen.visit_Loop
visit_Loop(o, d) ==
    LET body == visit_tuple(o.body, d + 1, 1)
        dd   == body.depth - 1
    IN  IF body.raised # "None" THEN Raised(body.raised, <<d + 1>> \o body.trace, body.depth)
        ELSE Returned(<<Line(o.id, dd, Indent(dd) \o <<"for", "{">>, NoStream)>>
                        \o body.lines
                        \o <<Line(o.id, dd, Indent(dd) \o <<"}">>, NoStream)>>,
                      <<d + 1>> \o body.trace \o <<dd>>, dd)

\* MaxjCodegen.visit_TypeDef
visit_TypeDef(o, d) ==
    LET decls == visit_tuple(o.body, d + 1, 1)
        dd    == decls.depth - 1
    IN  IF decls.raised # "None" THEN Raised(decls.raised, <<d + 1>> \o decls.trace, decls.depth)
        ELSE Returned(<<Line(o.id, 0, <<"DFEStructType", "{">>, NoStream)>>
                        \o decls.lines \o <<Line(o.id, 0, <<"} ;">>, NoStream)>>,
                      <<d + 1>> \o decls.trace \o <<dd>>, dd)

\* MaxjCodegen.visit_Subroutine, for a routine all of whose variables are
\* arguments
visit_Subroutine(o, d) ==
    LET imports == visit_tuple(Imports(o.spec), d, 1)
        spec    == visit_tuple(o.spec, imports.depth + 2, 1)
        body    == visit_tuple(o.body, spec.depth, 1)
        enter   == <<imports.depth + 1, imports.depth + 2>>
        d2      == body.depth
        outflow == [i \in DOMAIN OutflowArgs(o.arguments) |->
                       Line(o.id, d2, Indent(d2),
                            type_and_stream(OutflowArgs(o.arguments)[i], FALSE))]
    IN  IF imports.raised # "None" THEN imports
        ELSE IF spec.raised # "None"
             THEN Raised(spec.raised, imports.trace \o enter \o spec.trace, spec.depth)
        ELSE IF body.raised # "None"
             THEN Raised(body.raised, imports.trace \o enter \o spec.trace \o body.trace,
                         body.depth)
        ELSE IF \E i \in DOMAIN o.arguments : o.arguments[i].intent = "None"
             THEN Raised("AttributeError",
                         imports.trace \o enter \o spec.trace \o body.trace, d2)
        ELSE Returned(<<Line(o.id, 0, <<"package", "class", "{">>, NoStream)>>
                        \o imports.lines
                        \o <<Line(o.id, imports.depth + 1,
                                  Indent(imports.depth + 1) \o <<"Kernel", "{">>, NoStream)>>
                        \o <<Line(o.id, imports.depth + 2,
                                  Indent(imports.depth + 2) \o <<"super(parameters);">>, NoStream)>>
                        \o spec.lines \o body.lines \o outflow
                        \o <<Line(o.id, d2 - 1, Indent(d2 - 1) \o <<"}", "}">>, NoStream)>>,
                      imports.trace \o enter \o spec.trace \o body.trace \o <<d2 - 1, d2 - 2>>,
                      d2 - 2)

\* Visitor.visit: the handler of the node's kind, visit_Node without one
visit(o, d) ==
    IF o.kind = "Subroutine" THEN visit_Subroutine(o, d)
    ELSE IF o.kind = "Declaration" THEN visit_Declaration(o, d)
    ELSE IF o.kind = "TypeDef" THEN visit_TypeDef(o, d)
    ELSE IF o.kind = "Loop" THEN visit_Loop(o, d)
    ELSE IF o.kind = "Comment"
         THEN Returned(<<Line(o.id, d, visit_Comment(d, "text"), NoStream)>>, << >>, d)
    ELSE IF o.kind = "Statement"
         THEN Returned(<<Line(o.id, d, visit_Statement(d, TheStatement), NoStream)>>, << >>, d)
    ELSE visit_Node(o, d)

\* MaxjCodegen.visit_tuple from element i on
visit_tuple(o, d, i) ==
    IF i > Len(o) THEN Returned(<< >>, << >>, d)
    ELSE LET first == visit(o[i], d)
             rest  == visit_tuple(o, first.depth, i + 1)
         IN  IF first.raised # "None" THEN first
             ELSE [rest EXCEPT !.lines = first.lines \o @, !.trace = first.trace \o @]

\* the Array arguments whose stream the manager binds; the intent of every
\* Array argument is lowered, which fails on None
ManagerVars(arguments, intents) ==
    SelectSeq(arguments, LAMBDA v : v.cls = "Array" /\ Lower(v.intent) \in intents)

\* MaxjManagerCodegen.gen
gen(o, d) ==
    LET in_vars  == ManagerVars(o.arguments, {"in"})
        out_vars == ManagerVars(o.arguments, {"inout", "out"})
    IN  IF \E i \in DOMAIN o.arguments :
               o.arguments[i].cls = "Array" /\ o.arguments[i].intent = "None"
        THEN Raised("AttributeError", <<d + 1, d + 2>>, d + 2)
        ELSE Returned(
               <<Line(o.id, 0, <<"package", "class", "{">>, NoStream),
                 Line(o.id, d + 2, Indent(d + 2) \o <<"super(params);">>, NoStream)>>
               \o [i \in DOMAIN in_vars |->
                      Line(o.id, d + 2, Indent(d + 2),
                           [op |-> "getInput", key |-> in_vars[i].name])]
               \o [i \in DOMAIN out_vars |->
                      Line(o.id, d + 2, Indent(d + 2),
                           [op |-> "getOutput", key |-> out_vars[i].name])]
               \o <<Line(o.id, d + 1, Indent(d + 1) \o <<"}", "main", "{">>, NoStream),
                    Line(o.id, d + 2, Indent(d + 2) \o <<"manager.build();">>, NoStream),
                    Line(o.id, d + 1, Indent(d + 1) \o <<"}">>, NoStream),
                    Line(o.id, d, Indent(d) \o <<"}">>, NoStream)>>,
               <<d + 1, d + 2, d + 1, d + 2, d + 1, d>>, d)

\* every node of a tree gets its path from the root as identity; the children
\* of the body are numbered after those of the specification part
RECURSIVE Labelled(_, _)
Labelled(o, path) ==
    [o EXCEPT !.id = path,
              !.spec = [i \in DOMAIN o.spec |-> Labelled(o.spec[i], Append(path, i))],
              !.body = [i \in DOMAIN o.body |->
                           Labelled(o.body[i], Append(path, Len(o.spec) + i))]]

MaxBody == 2
MaxArguments == 2

ArgNames == <<"x", "y", "z">>
Intents == {"None", "in", "IN", "inout", "out"}
\* the forms of an argument; an initial value is given to plain variables only
ArgForms ==
    { f \in { DeclVar("", c, i, s, v) :
                c \in {"Scalar", "Array"}, i \in Intents, s \in BOOLEAN,
                v \in {"None", "init"} } :
        f.initial = "init" => ~f.dfestream /\ f.intent \in {"None", "in", "inout"} }
ArgumentLists ==
    { [i \in DOMAIN f |-> [f[i] EXCEPT !.name = ArgNames[i]]] :
        f \in UNION { [1..k -> ArgForms] : k \in 0..MaxArguments } }

Declaration(variables, parameter) ==
    IR("Declaration", << >>, << >>, variables, parameter, << >>)
Subroutine(spec, body, arguments) == IR("Subroutine", spec, body, << >>, FALSE, arguments)

\* routines that declare their arguments, and a declaration of the same
\* variables on its own
BindingRoots ==
    { Subroutine(<<Declaration(a, FALSE)>>, <<IRLeaf("Statement")>>, a) : a \in ArgumentLists }
      \cup { Declaration(a, FALSE) : a \in ArgumentLists }

FixedArguments ==
    <<DeclVar("x", "Array", "in", FALSE, "None"), DeclVar("y", "Scalar", "inout", FALSE, "None")>>
ParameterVars == <<DeclVar("n", "Scalar", "None", FALSE, "init")>>
LeafForms ==
    {IRLeaf("Statement"), IRLeaf("Comment"), IRLeaf("Import"),
     Declaration(FixedArguments, FALSE), Declaration(ParameterVars, TRUE)}
Bodies == UNION { [1..k -> LeafForms] : k \in 0..MaxBody }
Nested ==
    { IR(k, << >>, b, << >>, FALSE, << >>) :
        k \in {"Loop", "TypeDef", "Conditional"}, b \in Bodies }
\* the specification part of a routine declares its arguments
SpecParts ==
    {<<Declaration(FixedArguments, FALSE)>>,
     <<IRLeaf("Import"), Declaration(FixedArguments, FALSE)>>,
     <<IRLeaf("Comment"), Declaration(FixedArguments, FALSE), IRLeaf("Import")>>}

\* trees of nested scopes: a node, a loop around a nested node, a routine
\* around a node
WalkRoots ==
    LeafForms \cup Nested
      \cup { IR("Loop", << >>, <<n>>, << >>, FALSE, << >>) : n \in Nested }
      \cup { Subroutine(s, <<n, IRLeaf("Statement")>>, FixedArguments) :
               s \in SpecParts, n \in LeafForms \cup Nested }

NoResult == Returned(<< >>, << >>, 0)

InitKernel ==
    /\ InitSymbols /\ ri = NoRange /\ fe = NoFront
    /\ em \in { [n |-> 1, ir |-> Labelled(t, << >>), depth |-> d, by |-> "None",
                 res |-> NoResult, prev |-> NoResult] :
                t \in WalkRoots, d \in 0..MaxDepth }
              \cup
              { [n |-> 1, ir |-> Labelled(t, << >>), depth |-> 0, by |-> "None",
                 res |-> NoResult, prev |-> NoResult] : t \in BindingRoots }

\* maxjgen(ir) with a generator at em.depth; em.by is the generator that ran
\* last, em.res its result and em.prev the result of the one that ran before
VisitKernel ==
    /\ em.n <= 2 /\ em.by \in {"None", "manager"}
    /\ em' = [em EXCEPT !.n = @ + 1, !.by = "kernel", !.prev = em.res,
                        !.res = visit(em.ir, em.depth)]
    /\ UNCHANGED <<symbols, scopeParent, types, vars, steps, op, ri, fe>>

\* maxjmanagergen(ir) with a generator at em.depth
GenManager ==
    /\ em.n <= 2 /\ em.by \in {"None", "kernel"} /\ em.ir.kind = "Subroutine"
    /\ em' = [em EXCEPT !.n = @ + 1, !.by = "manager", !.prev = em.res,
                        !.res = gen(em.ir, em.depth)]
    /\ UNCHANGED <<symbols, scopeParent, types, vars, steps, op, ri, fe>>

NextKernel == VisitKernel \/ GenManager

SpecKernel == InitKernel /\ [][NextKernel]_allvars

(***************************************************************************)
(* Expression translation of the frontend: FParser2IR.visit_operation and  *)
(* the Literal factory called with a type keyword.                         *)
(***************************************************************************)

\* an expression node: its class, its children and its own value
Node(py, args, v) == [py |-> py, args |-> args, v |-> v]
NoNode == Node("None", <<>>, "")

\* what a translation call gives: a node, or an exception and no node
Built(node) == [raised |-> "None", node |-> node]
Failed(error) == [raised |-> error, node |-> NoNode]

\* FParser2IR.visit_operation(op, exprs)
visit_operation(token, exprs) ==
    IF token = "*" THEN Built(Node("Product", exprs, ""))
    ELSE IF token = "/"
         THEN Built(Node("Quotient", <<exprs[1], exprs[2]>>, ""))
    ELSE IF token = "+" THEN Built(Node("Sum", exprs, ""))
    ELSE IF token = "-"
         THEN IF Len(exprs) > 1
              THEN Built(Node("Sum", <<exprs[1], "Product(-1," \o exprs[2] \o ")">>, ""))
              ELSE Built(Node("Product", <<"-1", exprs[1]>>, ""))
    ELSE IF token = "**" THEN Built(Node("Power", <<exprs[1], exprs[2]>>, ""))
    ELSE IF Lower(token) = ".and." THEN Built(Node("LogicalAnd", exprs, ""))
    ELSE IF Lower(token) = ".or." THEN Built(Node("LogicalOr", exprs, ""))
    ELSE IF token = "==" \/ Lower(token) = ".eq."
         THEN Built(Node("Comparison", <<exprs[1], exprs[2]>>, "=="))
    ELSE IF token = "/=" \/ Lower(token) = ".ne."
         THEN Built(Node("Comparison", <<exprs[1], exprs[2]>>, "!="))
    ELSE IF token = ">" \/ Lower(token) = ".gt."
         THEN Built(Node("Comparison", <<exprs[1], exprs[2]>>, ">"))
    ELSE IF token = "<" \/ Lower(token) = ".lt."
         THEN Built(Node("Comparison", <<exprs[1], exprs[2]>>, "<"))
    ELSE IF token = ">=" \/ Lower(token) = ".ge."
         THEN Built(Node("Comparison", <<exprs[1], exprs[2]>>, ">="))
    ELSE IF token = "<=" \/ Lower(token) = ".le."
         THEN Built(Node("Comparison", <<exprs[1], exprs[2]>>, "<="))
    ELSE IF Lower(token) = ".not." THEN Built(Node("LogicalNot", <<exprs[1]>>, ""))
    ELSE Failed("RuntimeError")

\* the classes cls_map of Literal._from_literal knows, by type tag
cls_map ==
    [t \in {"INTEGER", "REAL", "LOGICAL", "CHARACTER"} |->
        CASE t = "INTEGER" -> "IntLiteral"
          [] t = "REAL" -> "FloatLiteral"
          [] t = "LOGICAL" -> "LogicLiteral"
          [] t = "CHARACTER" -> "StringLiteral"]

\* Literal._from_literal(value, type=tag): the tag "None" stands for a call
\* without the keyword, where the class follows from the Python value
from_literal(value, tag) ==
    LET type == IF tag # "None" THEN tag
                ELSE IF value.py = "int" THEN "INTEGER"
                ELSE IF value.py = "float" THEN "REAL"
                ELSE IF value.py = "str"
                     THEN IF Lower(value.v) \in {".true.", "true", ".false.", "false"}
                          THEN "LOGICAL" ELSE "CHARACTER"
                ELSE "None"
    IN  IF type \notin DOMAIN cls_map THEN Failed("KeyError")
        ELSE IF cls_map[type] = "LogicLiteral"
             THEN IF value.py # "str" THEN Failed("AttributeError")
                  ELSE Built(Node("LogicLiteral", <<>>,
                             IF Lower(value.v) \in {"true", ".true."} THEN "True" ELSE "False"))
        ELSE IF cls_map[type] = "StringLiteral"
             THEN IF value.py # "str" THEN Failed("TypeError")
                  ELSE Built(Node("StringLiteral", <<>>, Unquote(value.v)))
        ELSE Built(Node(cls_map[type], <<>>, value.v))

\* what pymbolic's parse(value) can give for the value: an exception, an
\* expression of pymbolic, or a plain Python number
ParseOutcomes == {"ParseError", "Expression", "int"}

\* Literal.__new__(value, type=tag); parsed is the outcome of pymbolic's
\* parser, which is consulted only after a KeyError of the class lookup
LiteralNew(value, tag, parsed) ==
    LET first == from_literal(value, tag)
    IN  IF first.raised # "KeyError" THEN first
        ELSE IF parsed = "ParseError" THEN Failed("ParseError")
        ELSE IF parsed = "Expression" THEN Built(Node("Variable", <<>>, value.v))
        ELSE from_literal(Val("int", "1", 0), tag)

\* the operator tokens offered to visit_operation
Tokens ==
    {"*", "/", "+", "-", "**", ".and.", ".AND.", ".or.", "==", ".eq.", ".EQ.", "/=",
     ".ne.", ">", ".gt.", "<", ".lt.", ">=", ".ge.", "<=", ".le.", ".not.", ".NOT.",
     ".eqv.", ".EQV.", ".neqv.", "//", "%"}
DispatchTable ==
    {"*", "/", "+", "-", "**", ".and.", ".AND.", ".or.", "==", ".eq.", ".EQ.", "/=",
     ".ne.", ">", ".gt.", "<", ".lt.", ">=", ".ge.", "<=", ".le.", ".not.", ".NOT."}
UnaryTokens == {"+", "-", ".not.", ".NOT."}
Operands == {"a", "b"}

\* operand lists as the parse tree gives them: one operand for a prefix
\* operator, two for an infix operator
OperandLists(token) ==
    IF token \in {".not.", ".NOT."} THEN {<<x>> : x \in Operands}
    ELSE IF token \in UnaryTokens \/ token \notin DispatchTable
         THEN {<<x>> : x \in Operands} \cup {<<x, y>> : x \in Operands, y \in Operands}
    ELSE {<<x, y>> : x \in Operands, y \in Operands}

\* literal values and type tags offered to the Literal factory
LiteralValues ==
    {Val("int", "1", 0), Val("float", "1.0", 0), Val("str", ".TRUE.", 0),
     Val("str", ".false.", 0), Val("str", "'a'", 0), Val("str", "n", 0)}
TypeTags ==
    {"None", "INTEGER", "REAL", "LOGICAL", "CHARACTER", "BOOL", "DEFERRED", "DERIVED_TYPE"}

NoTranslation == Failed("None")

InitTranslate ==
    /\ InitSymbols /\ ri = NoRange /\ em = NoEmit
    /\ \/ \E token \in Tokens : \E exprs \in OperandLists(token) :
              fe = [n |-> 1, call |-> "operation", op |-> token, exprs |-> exprs,
                    value |-> PyNone, tag |-> "None", parsed |-> "None",
                    res |-> NoTranslation]
       \/ \E value \in LiteralValues, tag \in TypeTags, parsed \in ParseOutcomes :
              fe = [n |-> 1, call |-> "literal", op |-> "", exprs |-> <<>>,
                    value |-> value, tag |-> tag, parsed |-> parsed,
                    res |-> NoTranslation]

TranslateOperation ==
    /\ fe.n = 1 /\ fe.call = "operation"
    /\ fe' = [fe EXCEPT !.n = 2, !.res = visit_operation(fe.op, fe.exprs)]
    /\ UNCHANGED <<symbols, scopeParent, types, vars, steps, op, ri, em>>

TranslateLiteral ==
    /\ fe.n = 1 /\ fe.call = "literal"
    /\ fe' = [fe EXCEPT !.n = 2, !.res = LiteralNew(fe.value, fe.tag, fe.parsed)]
    /\ UNCHANGED <<symbols, scopeParent, types, vars, steps, op, ri, em>>

NextTranslate == TranslateOperation \/ TranslateLiteral
SpecTranslate == InitTranslate /\ [][NextTranslate]_allvars

(***************************************************************************)
(* Call statements of the frontend: FParser2IR.visit_Call_Stmt.  A call    *)
(* node of the parse tree holds the routine's name and an argument list,   *)
(* or None in its place when the source has no argument list.              *)
(***************************************************************************)

\* actual arguments in one call
MaxActuals == 3

\* an actual argument of the parse tree: kw is its keyword, "" for a
\* positional argument
Actual(kw, v) == [kw |-> kw, v |-> v]
Actuals == {Actual("", "a"), Actual("", "b"), Actual("k", "a"), Actual("c", "'s'")}

\* the translation of one actual argument: visit_Base makes the tuple of the two
\* translated children of a keyword argument; a positional argument is its value
visit_Actual(a) ==
    IF a.kw # "" THEN [tuple |-> TRUE, name |-> a.kw, value |-> a.v]
    ELSE [tuple |-> FALSE, name |-> "", value |-> a.v]

\* FParser2IR.visit_Actual_Arg_Spec_List(o)
visit_Actual_Arg_Spec_List(items) == [i \in DOMAIN items |-> visit_Actual(items[i])]

\* the result of translating a call statement
CallNode(raised, arguments, kwarguments) ==
    [raised |-> raised, arguments |-> arguments, kwarguments |-> kwarguments]

\* FParser2IR.visit_Call_Stmt(o); haslist is FALSE when o.items[1] is None, and
\* FParser2IR.visit then reads the attribute item of None
visit_Call_Stmt(haslist, items) ==
    IF ~haslist THEN CallNode("AttributeError", << >>, << >>)
    ELSE LET args == visit_Actual_Arg_Spec_List(items)
         IN  CallNode("None",
                      SelectSeq(args, LAMBDA a : ~a.tuple),
                      SelectSeq(args, LAMBDA a : a.tuple))

InitCall ==
    /\ InitSymbols /\ ri = NoRange /\ em = NoEmit
    /\ \/ fe = [n |-> 1, haslist |-> FALSE, items |-> << >>,
                res |-> CallNode("None", << >>, << >>)]
       \/ \E k \in 1..MaxActuals : \E items \in [1..k -> Actuals] :
              fe = [n |-> 1, haslist |-> TRUE, items |-> items,
                    res |-> CallNode("None", << >>, << >>)]

TranslateCall ==
    /\ fe.n = 1
    /\ fe' = [fe EXCEPT !.n = 2, !.res = visit_Call_Stmt(fe.haslist, fe.items)]
    /\ UNCHANGED <<symbols, scopeParent, types, vars, steps, op, ri, em>>

SpecCall == InitCall /\ [][TranslateCall]_allvars

(***************************************************************************)
(* Names and subscripted references of the frontend: FParser2IR.visit_Name *)
(* and visit_Part_Ref.  The result is the list of keyword arguments handed *)
(* to Variable(...).  Types are tokens naming where a type came from: KW   *)
(* the enclosing declaration, MAP the external type map, FIELD the field   *)
(* list of the parent's derived type; shapes likewise k, m and f.          *)
(***************************************************************************)

\* the external maps of the translator: given is FALSE for None; a is the entry
\* of the name a, item the entry of the parent's name
ShapeMaps == {[given |-> FALSE, a |-> NoneSeq], [given |-> TRUE, a |-> NoneSeq],
              [given |-> TRUE, a |-> <<"m">>]}
\* the entry of the parent: none, a basic type, a derived type without field
\* list, with the field a as Scalar, as Array, or with other fields only
ItemTypes == {"None", "BaseType", "NoVariables", "ScalarField", "ArrayField", "OtherFields"}
TypeMaps ==
    {[given |-> FALSE, a |-> "None", item |-> "None"]}
      \cup {[given |-> TRUE, a |-> t, item |-> i] : t \in {"None", "MAP"}, i \in ItemTypes}

\* dict.get(name, None) if the map is not empty, else None
ShapeEntry(shape_map) == IF shape_map.given THEN shape_map.a ELSE NoneSeq
TypeEntry(type_map) == IF type_map.given THEN type_map.a ELSE "None"

\* the parent's type has a field list in which the field is looked up
HasFieldList(parent, type_map) ==
    /\ parent # "None" /\ type_map.given
    /\ type_map.item \in {"ScalarField", "ArrayField", "OtherFields"}

\* Variable(name=..., shape=..., type=..., parent=...), or the exception raised
\* before the call
VariableCall(raised, shape, type, parent) ==
    [raised |-> raised, shape |-> shape, type |-> type, parent |-> parent]

\* the field's type and, for an Array field, its shape over the given ones
WithField(shape, dtype, parent, type_map) ==
    IF ~HasFieldList(parent, type_map) THEN VariableCall("None", shape, dtype, parent)
    ELSE IF type_map.item = "OtherFields"
         THEN VariableCall("IndexError", NoneSeq, "None", parent)
    ELSE VariableCall("None",
                      IF type_map.item = "ArrayField" THEN <<"f">> ELSE shape,
                      "FIELD", parent)

\* FParser2IR.visit_Name(o, shape=kwshape, dtype=kwdtype, parent=parent)
visit_Name(kwshape, kwdtype, parent, shape_map, type_map) ==
    LET shape == IF kwshape = NoneSeq THEN ShapeEntry(shape_map) ELSE kwshape
        dtype == IF kwdtype = "None" THEN TypeEntry(type_map) ELSE kwdtype
    IN  WithField(shape, dtype, parent, type_map)

\* FParser2IR.visit_Part_Ref(o, parent=parent) for a name that is no intrinsic
visit_Part_Ref(parent, shape_map, type_map) ==
    LET first == WithField(NoneSeq, "None", parent, type_map)
    IN  IF first.raised # "None" THEN first
        ELSE VariableCall("None",
                          IF first.shape = NoneSeq THEN ShapeEntry(shape_map) ELSE first.shape,
                          IF first.type = "None" THEN TypeEntry(type_map) ELSE first.type,
                          parent)

InitRef ==
    /\ InitSymbols /\ ri = NoRange /\ em = NoEmit
    /\ \E parent \in {"None", "item"}, shape_map \in ShapeMaps, type_map \in TypeMaps :
         \/ \E kwshape \in {NoneSeq, <<"k">>}, kwdtype \in {"None", "KW"} :
                fe = [n |-> 1, call |-> "Name", kwshape |-> kwshape, kwdtype |-> kwdtype,
                      parent |-> parent, shape_map |-> shape_map, type_map |-> type_map,
                      res |-> VariableCall("None", NoneSeq, "None", "None")]
         \/ fe = [n |-> 1, call |-> "Part_Ref", kwshape |-> NoneSeq, kwdtype |-> "None",
                  parent |-> parent, shape_map |-> shape_map, type_map |-> type_map,
                  res |-> VariableCall("None", NoneSeq, "None", "None")]

TranslateName ==
    /\ fe.n = 1 /\ fe.call = "Name"
    /\ fe' = [fe EXCEPT !.n = 2,
                        !.res = visit_Name(fe.kwshape, fe.kwdtype, fe.parent,
                                           fe.shape_map, fe.type_map)]
    /\ UNCHANGED <<symbols, scopeParent, types, vars, steps, op, ri, em>>

TranslatePartRef ==
    /\ fe.n = 1 /\ fe.call = "Part_Ref"
    /\ fe' = [fe EXCEPT !.n = 2,
                        !.res = visit_Part_Ref(fe.parent, fe.shape_map, fe.type_map)]
    /\ UNCHANGED <<symbols, scopeParent, types, vars, steps, op, ri, em>>

NextRef == TranslateName \/ TranslatePartRef
SpecRef == InitRef /\ [][NextRef]_allvars

(***************************************************************************)
(* The declarations of a routine in MaxjCodegen.visit_Subroutine           *)
(* (maxgen.py, lines 166 to 193): the lines for local variables, the       *)
(* removal of their declarations from the routine's spec, the lines of the *)
(* remaining declarations, and the removal of the pointer flag.  A routine *)
(* is its spec (a list of declarations), its variables and its arguments;  *)
(* a line of text is the variable it declares and the form of the line.    *)
(***************************************************************************)

\* declarations in the spec of one routine
MaxDeclarations == 3

Decl(variables, pointer, parameter) ==
    [variables |-> variables, pointer |-> pointer, parameter |-> parameter]
DeclLine(name, form) == [name |-> name, form |-> form]

\* local_vars = [v for v in o.variables if v not in o.arguments]
local_vars(o) ==
    SelectSeq(o.variables, LAMBDA v : \A i \in DOMAIN o.arguments : o.arguments[i] # v)

\* the plain declaration lines of the local variables
LocalLines(o) == [i \in DOMAIN local_vars(o) |-> DeclLine(local_vars(o)[i], "plain")]

\* o.spec without the declarations that hold a local variable
WithoutLocalDeclarations(o) ==
    SelectSeq(o.spec, LAMBDA d : ~\E i \in DOMAIN d.variables :
                                      \E j \in DOMAIN local_vars(o) :
                                          local_vars(o)[j] = d.variables[i])

\* self.visit(o.spec): visit_Declaration gives one stream-binding line for each
\* variable of a declaration, and nothing for a parameter declaration
RECURSIVE SpecLines(_, _)
SpecLines(spec, i) ==
    IF i > Len(spec) THEN << >>
    ELSE (IF spec[i].parameter THEN << >>
          ELSE [k \in DOMAIN spec[i].variables |-> DeclLine(spec[i].variables[k], "stream")])
         \o SpecLines(spec, i + 1)

\* new_type = d.type; new_type.pointer = False, for every declaration
WithoutPointers(spec) == [i \in DOMAIN spec |-> [spec[i] EXCEPT !.pointer = FALSE]]

\* the declaration part of visit_Subroutine(o): its text and the routine it leaves
DeclareVariables(o) ==
    LET kept == WithoutLocalDeclarations(o)
    IN  [text |-> SpecLines(kept, 1) \o LocalLines(o),
         o |-> [o EXCEPT !.spec = WithoutPointers(kept)]]

\* routines: up to two arguments and two local variables, each declared once; the
\* declarations group the variables in any way
RoutineArguments == {<< >>, <<"x">>, <<"x", "y">>}
RoutineLocals == {<< >>, <<"t">>, <<"t", "u">>}
DeclOf(variables, at, i, pointer, parameter) ==
    Decl(SelectSeq(variables, LAMBDA v : at[v] = i), pointer, parameter)
\* at most one declaration has the pointer flag and at most one is a parameter
\* declaration (ptr and par are their positions, 0 for none)
Routines ==
    UNION { { [spec |-> [i \in 1..k |-> DeclOf(a \o l, at, i, ptr = i, par = i)],
               variables |-> a \o l, arguments |-> a] :
                at \in { f \in [{(a \o l)[i] : i \in DOMAIN (a \o l)} -> 1..k] :
                           \A i \in 1..k : \E v \in DOMAIN f : f[v] = i },
                ptr \in 0..k, par \in 0..k } :
            a \in RoutineArguments, l \in RoutineLocals, k \in 0..MaxDeclarations }

\* every declaration holds a variable, and a parameter declaration holds no argument
WellFormed(o) ==
    \A i \in DOMAIN o.spec :
        /\ o.spec[i].variables # << >>
        /\ o.spec[i].parameter =>
               \A k \in DOMAIN o.spec[i].variables :
                   \A j \in DOMAIN o.arguments : o.arguments[j] # o.spec[i].variables[k]

InitDeclare ==
    /\ InitSymbols /\ ri = NoRange /\ fe = NoFront
    /\ em \in { [n |-> 1, ir |-> o, o |-> o, text |-> << >>, again |-> << >>] :
                o \in { r \in Routines : WellFormed(r) } }

\* maxjgen(o): em.ir is the routine as it was given, em.o as it is now
GenerateKernel ==
    /\ em.n = 1
    /\ em' = [em EXCEPT !.n = 2, !.text = DeclareVariables(em.o).text,
                        !.o = DeclareVariables(em.o).o]
    /\ UNCHANGED <<symbols, scopeParent, types, vars, steps, op, ri, fe>>

\* maxjgen(o) once more on the same routine
GenerateKernelAgain ==
    /\ em.n = 2
    /\ em' = [em EXCEPT !.n = 3, !.again = DeclareVariables(em.o).text,
                        !.o = DeclareVariables(em.o).o]
    /\ UNCHANGED <<symbols, scopeParent, types, vars, steps, op, ri, fe>>

NextDeclare == GenerateKernel \/ GenerateKernelAgain
SpecDeclare == InitDeclare /\ [][NextDeclare]_allvars

(***************************************************************************)
(* One generator used for several visits: a MaxjCodegen keeps its _depth   *)
(* from one visit to the next, whether the visit returned or raised.       *)
(***************************************************************************)

\* a declaration of a variable whose type has no maxj counterpart
CharacterVars ==
    << [DeclVar("c", "Scalar", "None", FALSE, "None") EXCEPT !.dtype = "CHARACTER"] >>
\* nodes with a nested body, around bodies that may hold the failing declaration
GeneratorLeaves == LeafForms \cup {Declaration(CharacterVars, FALSE)}
GeneratorBodies == UNION { [1..k -> GeneratorLeaves] : k \in 1..MaxBody }
GeneratorRoots ==
    { IR(k, << >>, b, << >>, FALSE, << >>) : k \in {"Loop", "TypeDef"}, b \in GeneratorBodies }
      \cup { IR("Loop", << >>, <<IR(k, << >>, b, << >>, FALSE, << >>)>>, << >>, FALSE, << >>) :
               k \in {"Loop", "TypeDef"}, b \in GeneratorBodies }
      \cup { Subroutine(<<Declaration(FixedArguments, FALSE)>>, b, FixedArguments) :
               b \in GeneratorBodies }
      \cup { Subroutine(<<Declaration(FixedArguments, FALSE), l>>, <<IRLeaf("Statement")>>,
                        FixedArguments) : l \in GeneratorLeaves }

\* a generator made with depth em.before; em.depth is its _depth now
InitGenerator ==
    /\ InitSymbols /\ ri = NoRange /\ fe = NoFront
    /\ em \in { [n |-> 1, ir |-> Labelled(t, << >>), before |-> d, depth |-> d,
                 res |-> NoResult, later |-> NoResult, restored |-> FALSE] :
                t \in GeneratorRoots, d \in 0..MaxDepth }

\* generator.visit(ir)
VisitFirst ==
    /\ em.n = 1
    /\ em' = [em EXCEPT !.n = 2, !.res = visit(em.ir, em.depth),
                        !.depth = visit(em.ir, em.depth).depth]
    /\ UNCHANGED <<symbols, scopeParent, types, vars, steps, op, ri, fe>>

\* generator.visit(statement) on the same generator, after the caller has or has
\* not put the depth back
VisitLater ==
    /\ em.n = 2
    /\ \E d \in {em.depth, em.before} :
           em' = [em EXCEPT !.n = 3, !.depth = visit(Labelled(IRLeaf("Statement"), << >>), d).depth,
                            !.later = visit(Labelled(IRLeaf("Statement"), << >>), d),
                            !.restored = (d = em.before)]
    /\ UNCHANGED <<symbols, scopeParent, types, vars, steps, op, ri, fe>>

NextGenerator == VisitFirst \/ VisitLater
SpecGenerator == InitGenerator /\ [][NextGenerator]_allvars

(***************************************************************************)
(* Teardown of a scope while variables are still attached to it.  A Scalar *)
(* keeps the scope object itself (symbol_types.py, line 114), an Array a   *)
(* weak reference to it (line 203): the scope object goes away only when   *)
(* its owner has discarded it and no Scalar holds it.                      *)
(***************************************************************************)

Teardowns == {"clear", "unlink", "discard"}

\* the Scalars that hold scope s
StrongHolders(s) == { v \in DOMAIN vars : vars[v].cls = "Scalar" /\ vars[v].scope = s }

TypeRead(raised, type) == [raised |-> raised, type |-> type]

\* Scalar.type and Array.type, gone telling whether the scope object is gone:
\* Array.scope is then None and None has no symbols
TypeGetter(v, gone) ==
    IF vars[v].cls = "Array" /\ gone THEN TypeRead("AttributeError", None)
    ELSE TypeRead("None", TypeOf(v))

\* MaxjCodeMapper.map_scalar tests expr.type before reading its pointer flag,
\* map_array does not read the type
map_variable(v, gone) ==
    IF vars[v].cls = "Scalar" /\ TypeGetter(v, gone).raised # "None"
    THEN TypeGetter(v, gone).raised
    ELSE "text"

\* the scope s is torn down: its bindings are cleared (symbols.clear()), its
\* parent link is removed (_parent = None) or its owner discards the object;
\* a discarded scope that nothing holds is collected now or later
Teardown(s, how) ==
    /\ fe = NoFront
    /\ \E v \in DOMAIN vars : vars[v].scope = s /\ TypeOf(v) # None
    /\ \E gone \in BOOLEAN :
          /\ gone => how = "discard" /\ StrongHolders(s) = {}
          /\ fe' = [n |-> 1, scope |-> s, how |-> how, gone |-> gone,
                    before |-> [v \in DOMAIN vars |-> TypeOf(v)],
                    var |-> None, read |-> TypeRead("None", None), text |-> "None"]
    /\ symbols' = IF how = "clear" THEN [symbols EXCEPT ![s] = << >>] ELSE symbols
    /\ scopeParent' = IF how = "unlink" THEN [scopeParent EXCEPT ![s] = "none"]
                      ELSE scopeParent
    /\ UNCHANGED <<types, vars, steps, op, ri, em>>

\* v.type is read, and v is given to the generator, for a variable of the scope
ReadType(v) ==
    /\ fe # NoFront /\ fe.n = 1 /\ vars[v].scope = fe.scope
    /\ fe' = [fe EXCEPT !.n = 2, !.var = v, !.read = TypeGetter(v, fe.gone),
                        !.text = map_variable(v, fe.gone)]
    /\ UNCHANGED <<symbols, scopeParent, types, vars, steps, op, ri, em>>

NextTeardown ==
    \/ fe = NoFront /\ Next
    \/ \E s \in UserScopes, how \in Teardowns : Teardown(s, how)
    \/ \E v \in DOMAIN vars : ReadType(v)

SpecTeardown == Init /\ [][NextTeardown]_allvars

-----------------------------------------------------------------------------
(* Properties *)

\* .type of name n in scope s
Binding(s, n) == Own(Heap, s, n)

\* the last call bound an explicit type: Scalar/Array/Variable(type=T) or v.type = T
BoundExplicitly(o) ==
    o.kind \in {"Scalar", "Array", "Variable", "settype"} /\ o.targ \notin {None, Absent}

\* in heap H, type t is a DERIVED_TYPE whose field variables belong to another
\* scope than s
ForeignFields(H, t, s) ==
    /\ H.types[t].dtype = "DERIVED_TYPE"
    /\ H.types[t].variables # <<>>
    /\ H.vars[H.types[t].variables[1].var].scope # s

\* name n is m or a component of m (m%...)
IsPrefix(m, n) == Len(m) <= Len(n) /\ SubSeq(n, 1, Len(m)) = m

\* C1 as stated: after a type T is bound to name n in scope S, by constructing a
\* Scalar, Array or Variable with type=T or by assigning .type, reading .type of n
\* in S returns exactly the record T.
C1_BoundTypeIsRead ==
    BoundExplicitly(op) => Binding(op.scope, op.name) = op.targ

\* C1 amended: a binding call with type T leaves exactly T bound to (S, n), except
\* that the Variable factory, given a DERIVED_TYPE whose fields belong to another
\* scope, leaves bound a record created by the call (a clone of T); and a binding
\* only changes in a call that names (S, n) with an explicit type, or in a
\* re-instantiation of n or of the derived-type variable n is a component of.
C1_LastBindingWins ==
    [][ /\ BoundExplicitly(op') =>
             IF op'.kind = "Variable" /\ ForeignFields(Heap', op'.targ, op'.scope)
             THEN LET b == Own(Heap', op'.scope, op'.name)
                  IN  /\ b # op'.targ
                      /\ b > Len(types)
                      /\ types'[b].dtype = "DERIVED_TYPE"
             ELSE Own(Heap', op'.scope, op'.name) = op'.targ
        /\ \A s \in Scopes : \A n \in DOMAIN symbols[s] :
             Own(Heap', s, n) # Own(Heap, s, n) =>
                /\ op'.scope = s
                /\ \/ op'.name = n /\ BoundExplicitly(op')
                   \/ /\ op'.kind = "Variable"
                      /\ IsPrefix(op'.name, n)
                      /\ Own(Heap', s, op'.name) > Len(types) ]_allvars

\* C1 witness: a name bound before is bound again, by a construction with a type
C1_Rebound ==
    /\ op.kind \in {"Scalar", "Array"}
    /\ op.targ # None
    /\ Binding(op.scope, op.name) = op.targ
    /\ \E v \in DOMAIN vars :
          v # op.obj /\ vars[v].name = op.name /\ vars[v].scope = op.scope

\* the references to the same (scope, name) as reference v
SameEntry(v) ==
    { w \in DOMAIN vars : vars[w].name = vars[v].name /\ vars[w].scope = vars[v].scope }

\* C2: a type assigned through one reference is what every reference to the same
\* (scope, name) reads afterwards: no reference keeps a type of its own.
C2_SharedEntry ==
    op.kind = "settype" => \A w \in SameEntry(op.obj) : TypeOf(w) = op.targ

\* C2 witness: a type was assigned through one of two references to one entry
C2_TwoReferences ==
    /\ op.kind = "settype"
    /\ \E w \in SameEntry(op.obj) : w # op.obj /\ TypeOf(w) = op.targ

\* the last call constructed a variable without a type
TypelessConstruction(o) ==
    o.kind \in {"Scalar", "Array", "Variable"} /\ o.targ \in {None, Absent}

\* the symbol tables differ in the binding of (s, n) at most
OnlyBindingChanged(s, n) ==
    /\ \A s2 \in Scopes \ {s} : symbols'[s2] = symbols[s2]
    /\ DOMAIN symbols'[s] = DOMAIN symbols[s] \cup {n}
    /\ \A m \in DOMAIN symbols[s] \ {n} : symbols'[s][m] = symbols[s][m]

\* C3 as stated: a construction without a type inserts one DEFERRED binding for an
\* unbound name and leaves the binding of a bound name unchanged.
C3_PlaceholderOrUnchanged ==
    [][ TypelessConstruction(op') =>
          LET old == Own(Heap, op'.scope, op'.name)
              new == Own(Heap', op'.scope, op'.name)
          IN  IF old = None
              THEN /\ new > Len(types) /\ types'[new].dtype = "DEFERRED"
                   /\ OnlyBindingChanged(op'.scope, op'.name)
              ELSE symbols' = symbols ]_allvars

\* C3 amended: as stated, except that the Variable factory, finding the name bound
\* to a DERIVED_TYPE whose fields belong to another scope, re-instantiates it: the
\* name is then bound to a record created by the call.  A later binding of a type
\* to a name holding a placeholder replaces it and adds no entry for the name.
C3_PlaceholderOnce ==
    [][ /\ TypelessConstruction(op') =>
             LET old == Own(Heap, op'.scope, op'.name)
                 new == Own(Heap', op'.scope, op'.name)
             IN  IF old = None
                 THEN /\ new > Len(types) /\ types'[new].dtype = "DEFERRED"
                      /\ OnlyBindingChanged(op'.scope, op'.name)
                 ELSE IF op'.kind = "Variable" /\ ForeignFields(Heap, old, op'.scope)
                 THEN new > Len(types) /\ types'[new].dtype = "DERIVED_TYPE"
                 ELSE symbols' = symbols
        /\ ( /\ BoundExplicitly(op')
             /\ Own(Heap, op'.scope, op'.name) # None
             /\ types[Own(Heap, op'.scope, op'.name)].dtype = "DEFERRED"
             /\ types'[op'.targ].dtype # "DERIVED_TYPE" )
           => /\ Own(Heap', op'.scope, op'.name) = op'.targ
              /\ DOMAIN symbols'[op'.scope] = DOMAIN symbols[op'.scope] ]_allvars

\* C3 witness: a placeholder registered by a construction without a type was
\* replaced by a later declaration of the name
C3_PlaceholderReplaced ==
    /\ BoundExplicitly(op)
    /\ Binding(op.scope, op.name) = op.targ
    /\ \E t \in DOMAIN types :
          /\ types[t].dtype = "DEFERRED"
          /\ \A s \in Scopes : \A n \in DOMAIN symbols[s] : symbols[s][n] # t

\* the names looked up: every bound name, the first-level names, an unknown name
LookupNames ==
    UNION { DOMAIN symbols[s] : s \in Scopes } \cup TopNames \cup { <<"nosuch">> }

\* name n is bound in scope s or, if recursive, in a scope enclosing s
RECURSIVE DeclaredFor(_, _, _)
DeclaredFor(s, n, recursive) ==
    \/ n \in DOMAIN symbols[s]
    \/ recursive /\ scopeParent[s] # "none" /\ DeclaredFor(scopeParent[s], n, recursive)

C5_NearestBindingWins ==
    /\ \A n \in DOMAIN symbols["routine"] :
          /\ lookup("routine", n, TRUE) = symbols["routine"][n]
          /\ n \notin DOMAIN symbols["member"] =>
                /\ lookup("member", n, FALSE) = None
                /\ lookup("member", n, TRUE) = symbols["routine"][n]
                /\ get_symbol_scope("member", n) = "routine"
          /\ n \in DOMAIN symbols["member"] =>
                /\ lookup("member", n, FALSE) = symbols["member"][n]
                /\ lookup("member", n, TRUE) = symbols["member"][n]
                /\ get_symbol_scope("member", n) = "member"
    /\ (BoundExplicitly(op) /\ op.scope = "member") =>
          /\ get_symbol_scope("member", op.name) = "member"
          /\ lookup("member", op.name, TRUE) = TypeOf(op.obj)

\* C5 witness: a name bound in both scopes to different records, bound in the
\* member scope by the last call
C5_Shadowed ==
    /\ BoundExplicitly(op) /\ op.scope = "member"
    /\ op.name \in DOMAIN symbols["routine"]
    /\ lookup("member", op.name, TRUE) # lookup("routine", op.name, TRUE)

\* C5 witness for the other case: a name bound in the routine only
C5_ParentOnly ==
    \E n \in DOMAIN symbols["routine"] :
        n \notin DOMAIN symbols["member"] /\ lookup("member", n, TRUE) # None

\* the shape of the type the claim calls resolved: the explicit type's, else that
\* of the scope's own binding of the name before the call
ResolvedShape ==
    IF op'.targ = Absent
    THEN IF Own(Heap, op'.scope, op'.name) = None THEN NoneSeq
         ELSE types[Own(Heap, op'.scope, op'.name)].shape
    ELSE IF op'.targ = None THEN NoneSeq
    ELSE types'[op'.targ].shape

\* C6: the Variable factory returns a Scalar exactly when no dimensions are
\* supplied and the resolved type (the explicit type, else the scope's
\* non-recursive lookup) has no shape or an empty shape; otherwise an Array.
C6_ScalarOrArray ==
    [][ op'.kind = "Variable" =>
          /\ vars'[op'.obj].cls \in {"Scalar", "Array"}
          /\ vars'[op'.obj].name = op'.name /\ vars'[op'.obj].scope = op'.scope
          /\ vars'[op'.obj].cls = "Scalar"
                <=> ( /\ op'.dims = NoneSeq
                      /\ ResolvedShape \in {NoneSeq, <<>>} ) ]_allvars

\* C6 witness: an array referenced by its bare name, with no type and no
\* subscripts, is an Array
C6_BareArrayName ==
    /\ op.kind = "Variable" /\ op.targ = Absent /\ op.dims = NoneSeq
    /\ vars[op.obj].cls = "Array"

\* C6 witness for the other cases: a Scalar, and an Array by its subscripts alone
C6_ScalarAndSubscripted ==
    /\ op.kind = "Variable" /\ op.dims # NoneSeq /\ vars[op.obj].cls = "Array"
    /\ types[TypeOf(op.obj)].shape = NoneSeq
    /\ \E v \in DOMAIN vars :
          vars[v].cls = "Scalar" /\ vars[v].scope \in UserScopes /\ vars[v].dims = NoneSeq

\* the type the factory resolves in the step: the explicit one, else the own binding
ResolvedBefore ==
    IF op'.targ = Absent THEN Own(Heap, op'.scope, op'.name) ELSE op'.targ

\* the step is a Variable(...) call that re-instantiates a derived type
Reinstantiation ==
    /\ op'.kind = "Variable"
    /\ ResolvedBefore \in DOMAIN types
    /\ ForeignFields(Heap, ResolvedBefore, op'.scope)

\* C7: when the factory constructs a variable of a DERIVED_TYPE whose fields
\* belong to another scope, the instance is bound to a new record with its own
\* field mapping; every field is a new variable named instance%field in the
\* instance's scope, bound to a new record that copies the field's type; no
\* existing record and no other scope's binding changes.  Afterwards assigning
\* the type of a component instance%field, or mutating it, changes neither the
\* bindings of the type definition's scope, nor the records bound there, nor the
\* definition's field list: an assignment rebinds in the component's scope only,
\* a mutation changes the component's own record only.
C7_FieldsReinstantiated ==
    [][ /\ Reinstantiation =>
             LET T == ResolvedBefore
                 N == Own(Heap', op'.scope, op'.name)
             IN  /\ N > Len(types)
                 /\ \A t \in DOMAIN types : types'[t] = types[t]
                 /\ \A s \in Scopes \ {op'.scope} : symbols'[s] = symbols[s]
                 /\ Len(types'[N].variables) = Len(types[T].variables)
                 /\ \A i \in DOMAIN types[T].variables :
                       LET dv == types[T].variables[i].var
                           fv == types'[N].variables[i].var
                           ft == TypeOfIn(Heap', fv)
                       IN  /\ types'[N].variables[i].key = types[T].variables[i].key
                           /\ fv > Len(vars)
                           /\ vars'[fv].scope = op'.scope
                           /\ vars'[fv].name = Append(op'.name, Last(vars[dv].name))
                           /\ ft > Len(types)
                           /\ types'[ft].dtype = types[TypeOfIn(Heap, dv)].dtype
                           /\ types'[ft].shape = types[TypeOfIn(Heap, dv)].shape
                           /\ \A s \in Scopes : \A n \in DOMAIN symbols'[s] :
                                 symbols'[s][n] = ft => s = op'.scope /\ n = vars'[fv].name
        /\ (op'.kind \in {"settype", "setshape"} /\ Len(op'.name) > 1) =>
             /\ symbols'["typedef"] = symbols["typedef"]
             /\ \A n \in DOMAIN symbols["typedef"] :
                   types'[symbols["typedef"][n]] = types[symbols["typedef"][n]]
             /\ types'[DefType].variables = types[DefType].variables
             /\ \A s \in Scopes \ {op'.scope} : symbols'[s] = symbols[s]
             /\ \A t \in DOMAIN types :
                   types'[t] # types[t] => op'.kind = "setshape" /\ t = TypeOf(op'.obj) ]_allvars

\* C7 witness: the shape of an instance's field was mutated through the instance,
\* and the field of the type definition still has the shape it was declared with
C7_InstanceFieldMutated ==
    /\ op.kind = "setshape" /\ Len(op.name) > 1
    /\ types[TypeOf(op.obj)].parent # None
    /\ types[TypeOf(op.obj)].shape = <<"n", "m">>
    /\ types[symbols["typedef"][<<"g">>]].shape = <<"n">>
    /\ types[DefType].variables = InitTypes[DefType].variables

\* the field variables of the derived-type variable that the last call instantiated
InstantiatedFields ==
    IF op.kind = "Variable" /\ TypeOf(op.obj) # None
    THEN { types[TypeOf(op.obj)].variables[i].var :
             i \in { j \in DOMAIN types[TypeOf(op.obj)].variables :
                       vars[types[TypeOf(op.obj)].variables[j].var].name
                          = Append(op.name, Last(vars[types[TypeOf(op.obj)].variables[j].var].name))
                       /\ types[TypeOf(op.obj)].variables[j].var > op.obj } }
    ELSE {}

\* C8: for every field variable p%f created when a derived-type variable p is
\* instantiated, the variable's parent is p and the parent recorded in its type
\* is p.
C8_FieldParentIsInstance ==
    \A fv \in InstantiatedFields :
        vars[fv].parent = op.obj /\ types[TypeOf(fv)].parent = op.obj

\* C8 witness: a derived-type variable was instantiated with its fields
C8_FieldsInstantiated ==
    /\ InstantiatedFields # {}
    /\ \A fv \in InstantiatedFields : Len(vars[fv].name) = 2 /\ fv > op.obj

\* what the code establishes instead: the type's parent is p, the variable has none
C8_OnlyTypeParent ==
    \A fv \in InstantiatedFields :
        vars[fv].parent = None /\ types[TypeOf(fv)].parent = op.obj

\* what a construction was given for bound k at position i: the keyword, else
\* the positional argument, else nothing
Given(k, i) ==
    IF k \in DOMAIN ri.kwargs THEN ri.kwargs[k]
    ELSE IF i \in DOMAIN ri.args THEN ri.args[i]
    ELSE PyNone
GivenLower == Given("lower", IF Len(ri.args) >= 2 THEN 1 ELSE 0)
GivenUpper == Given("upper", IF Len(ri.args) >= 2 THEN 2 ELSE Len(ri.args))
GivenStep  == Given("step", IF Len(ri.args) = 3 THEN 3 ELSE 0)
OnlyUpper == GivenUpper # PyNone /\ GivenLower = PyNone /\ GivenStep = PyNone
LiteralClasses == {"IntLiteral", "FloatLiteral", "LogicLiteral", "StringLiteral"}

\* a literal node built from the plain value x
LiteralOf(x, lit) ==
    \/ x.py = "int" /\ lit.py = "IntLiteral" /\ lit.v = x.v
    \/ x.py = "float" /\ lit.py = "FloatLiteral" /\ lit.v = x.v
    \/ x.py = "str" /\ lit.py \in {"LogicLiteral", "StringLiteral"}

\* a new range object holding exactly the given bounds; earlier ranges untouched
NewRangeHolds ==
    /\ ri.result.py = "RangeIndex"
    /\ ri.result.id = Len(EarlierRanges) + 1
    /\ Len(ri.ranges) = Len(EarlierRanges) + 1
    /\ ri.ranges[ri.result.id] =
           [lower |-> GivenLower, upper |-> GivenUpper, step |-> GivenStep]
    /\ \A i \in DOMAIN EarlierRanges : ri.ranges[i] = EarlierRanges[i]

\* C9: constructing a RangeIndex with an upper bound and neither lower bound nor
\* step never yields a RangeIndex instance: the result is the upper bound itself
\* when that is an expression node, otherwise a literal built from it; any
\* construction with a lower bound or a step, or with no bound at all, yields a
\* RangeIndex holding exactly the given (lower, upper, step).
C9_OnlyUpperCollapses ==
    ri.n = 2 =>
        IF OnlyUpper
        THEN /\ ri.result.py # "RangeIndex"
             /\ IF isExpression(GivenUpper) THEN ri.result = GivenUpper
                ELSE LiteralOf(GivenUpper, ri.result)
             /\ ri.ranges = EarlierRanges
        ELSE NewRangeHolds

\* what the code does establish: the same, unless the only bound given is itself
\* a RangeIndex; that object is then returned and re-initialised to have itself
\* as its upper bound
C9_CollapsesUnlessRange ==
    ri.n = 2 =>
        IF OnlyUpper
        THEN IF GivenUpper.py = "RangeIndex"
             THEN /\ ri.result = GivenUpper
                  /\ ri.ranges[GivenUpper.id] =
                         [lower |-> PyNone, upper |-> GivenUpper, step |-> PyNone]
             ELSE /\ ri.result.py # "RangeIndex"
                  /\ IF isExpression(GivenUpper) THEN ri.result = GivenUpper
                     ELSE LiteralOf(GivenUpper, ri.result)
                  /\ ri.ranges = EarlierRanges
        ELSE NewRangeHolds

\* a range was passed as the only bound and came back as the result
C9_RangeAsOnlyBound ==
    ri.n = 2 /\ OnlyUpper /\ GivenUpper.py = "RangeIndex" /\ ri.result.py = "RangeIndex"

\* the kind tag names 32-bit precision: it prints as real32
Denotes32(kind) == kind # PyNone /\ kind.v = "real32"

\* C10: kernel-dialect type emission for a REAL type selects the float stream
\* type with format (8, 24) exactly when the type's kind tag denotes 32-bit
\* precision, and the float stream type with format (11, 53) for every other
\* kind and for an absent kind.
C10_RealStreamType ==
    (em.n = 2 /\ em.type.dtype = "REAL") =>
        em.out = IF Denotes32(em.type.kind) THEN <<"dfeFloat(8, 24)">>
                 ELSE <<"dfeFloat(11, 53)">>

\* C10 as the code has it: the claim holds for a REAL type flagged as a dataflow
\* variable (dfevar); for any other REAL type emission selects the local types
\* float and double by the same test of the kind tag.  The tag is compared with
\* real32 exactly, so REAL32, 4 or an absent kind select the 64-bit type.
C10_RealStreamTypeIfDfevar ==
    (em.n = 2 /\ em.type.dtype = "REAL") =>
        /\ em.type.dfevar =>
              em.out = IF Denotes32(em.type.kind) THEN <<"dfeFloat(8, 24)">>
                       ELSE <<"dfeFloat(11, 53)">>
        /\ ~em.type.dfevar =>
              em.out = IF Denotes32(em.type.kind) THEN <<"float">> ELSE <<"double">>

\* C10 witness: a 32-bit REAL dataflow variable was emitted as dfeFloat(8, 24)
C10_Real32Stream ==
    /\ em.n = 2 /\ em.type.dtype = "REAL" /\ em.type.dfevar
    /\ Denotes32(em.type.kind)
    /\ em.out = <<"dfeFloat(8, 24)">>

\* the words of a text that are assignment operators
Operators(text) == { i \in DOMAIN text : text[i] \in {"=", "<=="} }

\* C11: for every assignment statement the kernel generator emits the
\* streaming-bind operator <== exactly when the target is an Array reference and
\* the plain operator = exactly when it is a Scalar; the target text before the
\* operator and the expression text after it are rendered the same way in both
\* cases.
C11_StreamingBindIffArray ==
    em.n = 2 =>
        \E i \in DOMAIN em.out :
            /\ Operators(em.out) = {i}
            /\ em.out[i] = "<==" <=> em.stmt.target.cls = "Array"
            /\ em.out[i] = "=" <=> em.stmt.target.cls = "Scalar"
            /\ SubSeq(em.out, 1, i - 1) = Indent(em.depth) \o maxjsymgen(em.stmt.target)
            /\ SubSeq(em.out, i + 1, i + Len(maxjsymgen(em.stmt.expr)) + 1)
                   = maxjsymgen(em.stmt.expr) \o <<";\n">>

\* C11 witness: a statement with an Array target and a Scalar on the right was
\* emitted with the streaming-bind operator
C11_ArrayTargetBound ==
    /\ em.n = 2 /\ em.stmt.target.cls = "Array" /\ em.stmt.expr.cls = "Scalar"
    /\ em.stmt.target.dims # << >>
    /\ \E i \in DOMAIN em.out : em.out[i] = "<=="

\* C12: each of the three post-processing passes (inline_comments,
\* cluster_comments, inline_pragmas) is idempotent: for every sibling sequence,
\* including several consecutive Pragmas before a Declaration, Call or Loop and
\* a Statement followed by several Comments, applying the pass twice yields the
\* same tree as applying it once.
C12_PassIdempotent ==
    fe.n = 3 => fe.twice = fe.once

\* a Pragma directly before another Pragma that is attached in the first pass
PragmaRun(ir) ==
    \E i \in 1..(Len(ir) - 2) :
        /\ ir[i].kind = "Pragma" /\ ir[i + 1].kind = "Pragma"
        /\ ir[i + 2].kind \in {"Declaration", "CallStatement", "Loop"}

\* what the code does establish: the second application changes the tree only
\* for inline_pragmas on a run of Pragmas, where it attaches the next Pragma
\* in place of the one attached first
C12_IdempotentUnlessPragmaRun ==
    fe.n = 3 =>
        IF fe.pass = "inline_pragmas" /\ PragmaRun(fe.ir)
        THEN /\ Len(fe.twice) < Len(fe.once)
             /\ \E i \in DOMAIN fe.once, j \in DOMAIN fe.twice :
                   /\ fe.once[i].id = fe.twice[j].id
                   /\ fe.once[i].pragma # 0 /\ fe.twice[j].pragma # 0
                   /\ fe.once[i].pragma # fe.twice[j].pragma
        ELSE fe.twice = fe.once

\* C12 witness: two Pragmas before a Loop went through inline_pragmas twice
C12_TwoPragmasTwice ==
    /\ fe.n = 3 /\ fe.pass = "inline_pragmas" /\ Len(fe.ir) = 3
    /\ fe.ir[1].kind = "Pragma" /\ fe.ir[2].kind = "Pragma" /\ fe.ir[3].kind = "Loop"
    /\ Len(fe.once) = 2 /\ Len(fe.twice) = 1

\* the depth values of a generator call, from the value before the call on
DepthTrace == <<em.depth>> \o em.res.trace

\* C13: when a kernel-generator visit or the manager generator's gen returns
\* normally, the indentation depth equals its value before the call; during the
\* call the depth never drops below that value, and every increment on entering
\* a nested scope is matched by exactly one decrement on leaving it.
C13_DepthBalanced ==
    (em.by # "None" /\ em.res.raised = "None") =>
        /\ em.res.depth = em.depth
        /\ \A i \in DOMAIN em.res.trace :
              /\ em.res.trace[i] >= em.depth
              /\ em.res.trace[i] - DepthTrace[i] \in {1, -1}
        /\ Cardinality({ i \in DOMAIN em.res.trace : em.res.trace[i] > DepthTrace[i] })
             = Cardinality({ i \in DOMAIN em.res.trace : em.res.trace[i] < DepthTrace[i] })
        /\ \A l \in DOMAIN em.res.lines : em.res.lines[l].depth >= 0

\* C13 witness: a routine around a loop was generated from a depth above 0 and
\* went three levels deeper
C13_NestedScopesLeft ==
    /\ em.by = "kernel" /\ em.res.raised = "None" /\ em.depth > 0
    /\ em.ir.kind = "Subroutine"
    /\ \E i \in DOMAIN em.res.trace : em.res.trace[i] = em.depth + 3
    /\ em.res.depth = em.depth

\* the nodes of a tree, and those the generator reaches: the children of a
\* routine, a type definition and a loop, not those of a node without handler
Range(seq) == { seq[i] : i \in DOMAIN seq }
RECURSIVE NodesOf(_), ReachedOf(_)
NodesOf(o) == {o} \cup UNION { NodesOf(c) : c \in Range(o.spec) \cup Range(o.body) }
ReachedOf(o) ==
    {o} \cup IF o.kind \in {"Subroutine", "TypeDef", "Loop"}
             THEN UNION { ReachedOf(c) : c \in Range(o.spec) \cup Range(o.body) }
             ELSE {}
Handled == {"Subroutine", "Declaration", "TypeDef", "Loop", "Comment", "Statement"}
Marker(o) == "// <" \o o.kind \o ">"
LinesOf(o) == { i \in DOMAIN em.res.lines : em.res.lines[i].id = o.id }

IntentIs(v, w) == v.intent # "None" /\ Lower(v.intent) = w
Streamed(v) == v.cls = "Array" \/ v.dfestream

\* the lines a node contributed, in order
LineSeqOf(o) == SelectSeq(em.res.lines, LAMBDA l : l.id = o.id)

\* the Declarations of variables that were generated
Declared ==
    { o \in ReachedOf(em.ir) : o.kind = "Declaration" /\ ~o.parameter /\ o.variables # << >> }

\* the input binding the claim gives v
ClaimedInput(v) ==
    IF (IntentIs(v, "in") \/ IntentIs(v, "inout")) /\ Streamed(v)
    THEN [op |-> "io.input", key |-> v.name]
    ELSE IF IntentIs(v, "in") THEN [op |-> "io.scalarInput", key |-> v.name]
    ELSE IF v.initial # "None" THEN [op |-> "initial", key |-> v.initial]
    ELSE [op |-> "newInstance", key |-> "this"]

\* C15: for the input binding of a declared variable exactly one of four
\* outcomes is chosen, in this order: a variable with intent in or inout that is
\* an Array or stream-flagged binds to the named input stream keyed by its name;
\* a plain scalar with intent in binds to the scalar input; otherwise a variable
\* with an initial value uses that value; otherwise a fresh instance is
\* constructed.  Intent is compared case-insensitively.
C15_InputBinding ==
    (em.by = "kernel" /\ em.res.raised = "None") =>
        \A o \in Declared :
            /\ Len(LineSeqOf(o)) = Len(o.variables)
            /\ \A i \in DOMAIN o.variables :
                  LineSeqOf(o)[i].stream = ClaimedInput(o.variables[i])

\* what the code does establish: the same with intent in alone in the first
\* outcome; an Array or stream-flagged variable with intent inout gets its
\* initial value or a fresh instance
C15_InputBindingForIn ==
    (em.by = "kernel" /\ em.res.raised = "None") =>
        \A o \in Declared :
            /\ Len(LineSeqOf(o)) = Len(o.variables)
            /\ \A i \in DOMAIN o.variables :
                  LET v == o.variables[i]
                  IN  LineSeqOf(o)[i].stream =
                          IF IntentIs(v, "in") /\ Streamed(v)
                          THEN [op |-> "io.input", key |-> v.name]
                          ELSE IF IntentIs(v, "in")
                               THEN [op |-> "io.scalarInput", key |-> v.name]
                          ELSE IF v.initial # "None"
                               THEN [op |-> "initial", key |-> v.initial]
                          ELSE [op |-> "newInstance", key |-> "this"]

\* C15 witness: the declaration of an Array with intent inout was generated in
\* a routine, and the Array was bound to a fresh instance
C15_InoutArrayFresh ==
    /\ em.by = "kernel" /\ em.res.raised = "None"
    /\ em.ir.kind = "Subroutine"
    /\ \E o \in Declared : \E i \in DOMAIN o.variables :
          /\ o.variables[i].cls = "Array" /\ o.variables[i].intent = "inout"
          /\ LineSeqOf(o)[i].stream.op = "newInstance"

\* the outflow statements of the generated routine, in the order of the text
Outflow == SelectSeq(em.res.lines, LAMBDA l : l.stream.op \in {"io.output", "io.scalarOutput"})

\* the outflow statements the claim gives the arguments
ClaimedOutflow(arguments) ==
    LET outs == SelectSeq(arguments, LAMBDA v : IntentIs(v, "out") \/ IntentIs(v, "inout"))
    IN  [i \in DOMAIN outs |->
            [op |-> IF Streamed(outs[i]) THEN "io.output" ELSE "io.scalarOutput",
             key |-> outs[i].name]]

\* the outflow statements are as claimed and follow every line of the body
OutflowAsClaimed ==
    /\ em.res.raised = "None"
    /\ [i \in DOMAIN Outflow |-> Outflow[i].stream] = ClaimedOutflow(em.ir.arguments)
    /\ \A i, j \in DOMAIN em.res.lines :
          (em.res.lines[i].stream.op \in {"io.output", "io.scalarOutput"}
             /\ em.res.lines[j].id # em.ir.id) => j < i

\* C16: every subroutine argument with intent out or inout gets exactly one
\* outflow statement, emitted after the body in argument order: the named output
\* stream when the argument is an Array or stream-flagged, the scalar output
\* otherwise, keyed by the argument's name; an argument with any other intent,
\* or with no intent, gets no outflow statement and does not make generation
\* fail.
C16_OutputBinding ==
    (em.by = "kernel" /\ em.ir.kind = "Subroutine") => OutflowAsClaimed

\* what the code does establish: the same when every argument has an intent;
\* an argument without intent makes generation fail with AttributeError
C16_OutputBindingIfIntents ==
    (em.by = "kernel" /\ em.ir.kind = "Subroutine") =>
        IF \E i \in DOMAIN em.ir.arguments : em.ir.arguments[i].intent = "None"
        THEN em.res.raised = "AttributeError" /\ em.res.lines = << >>
        ELSE OutflowAsClaimed

\* C16 witness: generation of a routine with an argument without intent and an
\* argument with intent out failed
C16_NoIntentFails ==
    /\ em.by = "kernel" /\ em.ir.kind = "Subroutine"
    /\ \E i, j \in DOMAIN em.ir.arguments :
          em.ir.arguments[i].intent = "None" /\ em.ir.arguments[j].intent = "out"
    /\ em.res.raised = "AttributeError"

\* both generators ran on the routine: the result of each
BothRan == em.n = 3
KernelResult == IF em.by = "kernel" THEN em.res ELSE em.prev
ManagerResult == IF em.by = "manager" THEN em.res ELSE em.prev
\* the names of the streams that a result binds by one of the operations ops
StreamKeys(res, ops) ==
    { res.lines[i].stream.key :
        i \in { j \in DOMAIN res.lines : res.lines[j].stream.op \in ops } }

\* C17: for every subroutine, the set of stream names the manager generator
\* binds equals the set of stream names the kernel generator opens (named input
\* streams and named output streams), direction by direction, and each name is
\* the source variable's name on both sides.
C17_SameStreamNames ==
    (BothRan /\ KernelResult.raised = "None" /\ ManagerResult.raised = "None") =>
        /\ StreamKeys(ManagerResult, {"getInput"}) = StreamKeys(KernelResult, {"io.input"})
        /\ StreamKeys(ManagerResult, {"getOutput"}) = StreamKeys(KernelResult, {"io.output"})
        /\ StreamKeys(ManagerResult, {"getInput", "getOutput"})
             \subseteq { em.ir.arguments[i].name : i \in DOMAIN em.ir.arguments }

\* what the code does establish: the manager binds the streams of the Array
\* arguments only; the kernel also opens a named stream for every stream-flagged
\* Scalar argument, which the manager leaves unbound
C17_SameStreamNamesOfArrays ==
    (BothRan /\ KernelResult.raised = "None" /\ ManagerResult.raised = "None") =>
        LET scalars(intents) ==
                { em.ir.arguments[i].name :
                    i \in { j \in DOMAIN em.ir.arguments :
                              /\ em.ir.arguments[j].cls = "Scalar"
                              /\ em.ir.arguments[j].dfestream
                              /\ Lower(em.ir.arguments[j].intent) \in intents } }
        IN  /\ StreamKeys(KernelResult, {"io.input"})
                 = StreamKeys(ManagerResult, {"getInput"}) \cup scalars({"in"})
            /\ StreamKeys(KernelResult, {"io.output"})
                 = StreamKeys(ManagerResult, {"getOutput"}) \cup scalars({"inout", "out"})
            /\ StreamKeys(ManagerResult, {"getInput"}) \cap scalars({"in"}) = {}
            /\ StreamKeys(ManagerResult, {"getOutput"}) \cap scalars({"inout", "out"}) = {}

\* C17 witness: kernel and manager were generated for a routine with an Array
\* argument and a stream-flagged Scalar argument, both with intent in
C17_StreamedScalarUnbound ==
    /\ BothRan /\ KernelResult.raised = "None" /\ ManagerResult.raised = "None"
    /\ StreamKeys(KernelResult, {"io.input"}) = {"x", "y"}
    /\ StreamKeys(ManagerResult, {"getInput"}) = {"x"}
    /\ em.ir.arguments[2].cls = "Scalar" /\ em.ir.arguments[2].dfestream

\* the translation call has run
Translated == fe.n = 2

\* the literal kinds the factory supports, as type tags
SupportedTags == DOMAIN cls_map

\* C18: an operator token outside the dispatch table, or a literal whose type
\* tag is not a supported literal kind, raises an error and gives no node
C18_UnsupportedRaises ==
    Translated =>
        /\ (fe.call = "operation" /\ fe.op \notin DispatchTable) =>
               fe.res.raised # "None" /\ fe.res.node = NoNode
        /\ (fe.call = "literal" /\ fe.tag \notin SupportedTags \cup {"None"}) =>
               fe.res.raised # "None" /\ fe.res.node = NoNode

\* C18, the part the code keeps: an unknown operator token raises RuntimeError
\* and gives no node, a known one gives a node; a literal with an unsupported
\* tag gives no literal node, and fails unless the parser returns an expression
C18_UnsupportedRaisesUnlessParsed ==
    Translated =>
        /\ (fe.call = "operation" /\ fe.op \notin DispatchTable) =>
               fe.res.raised = "RuntimeError" /\ fe.res.node = NoNode
        /\ (fe.call = "operation" /\ fe.op \in DispatchTable) => fe.res.raised = "None"
        /\ (fe.call = "literal" /\ fe.tag \notin SupportedTags \cup {"None"}) =>
               /\ fe.res.node.py \notin LiteralClasses
               /\ fe.parsed # "Expression" =>
                      fe.res.raised # "None" /\ fe.res.node = NoNode

\* C18: a literal with the tag BOOL came back as a pymbolic expression
C18_UnsupportedTagCoerced ==
    /\ Translated /\ fe.call = "literal" /\ fe.tag = "BOOL"
    /\ fe.res.raised = "None" /\ fe.res.node.py = "Variable"

\* the type tags the scalar mappings of the kernel dialect know
ScalarTags == {"LOGICAL", "INTEGER", "REAL"}

\* an emission result that is an error, not text
IsError(out) == Len(out) > 0 /\ out[1] = "ValueError"

\* C19: type emission fails with an error naming the type, and gives no text,
\* for a DEFERRED type and for every type the dialect does not support
\* (CHARACTER; a derived type handed to the scalar mappings); it gives text
\* only for the types it supports
C19_UnsupportedTypeFails ==
    em.n = 2 =>
        /\ em.type.dtype \in {"DEFERRED", "CHARACTER"} => em.out = ValueError(em.type)
        /\ em.type.dtype \in ScalarTags \cup {"DERIVED_TYPE"} =>
               ~IsError(em.out) /\ Len(em.out) > 0
        /\ em.type.dtype \notin ScalarTags =>
               /\ maxj_local_type(em.type) = ValueError(em.type)
               /\ maxj_dfevar_type(em.type) = ValueError(em.type)

\* C19 witness: emission of a DEFERRED type ended in the error naming it
C19_DeferredFailed ==
    /\ em.n = 2 /\ em.type.dtype = "DEFERRED"
    /\ em.out = <<"ValueError", "DEFERRED">>

\* the scopes enclosing s
RECURSIVE Ancestors(_)
Ancestors(s) ==
    IF scopeParent[s] = "none" THEN {} ELSE {scopeParent[s]} \cup Ancestors(scopeParent[s])

\* neither scope encloses the other
Unrelated(s1, s2) == s1 # s2 /\ s1 \notin Ancestors(s2) /\ s2 \notin Ancestors(s1)

\* the calls that bind or re-bind a type for a name
BindingCalls == {"Scalar", "Array", "Variable", "settype"}

\* the names of scope s and the type records they are bound to, as values
BindingsOf(sym, typ, s) == [n \in DOMAIN sym[s] |-> <<sym[s][n], typ[sym[s][n]]>>]

\* C20: a call that binds or re-binds a type for a name in one scope leaves
\* every binding of every unrelated scope as it was, the name's own included:
\* the same record, with the same type and shape
C20_UnrelatedScopesKept ==
    [][ op'.kind \in BindingCalls =>
            \A s \in Scopes :
                Unrelated(op'.scope, s) =>
                    BindingsOf(symbols', types', s) = BindingsOf(symbols, types, s) ]_allvars

\* C20 witness: the name item is bound in two routines of which neither encloses
\* the other, to different records with different shapes, the second binding made
\* after the first
C20_SameNameTwoRoutines ==
    /\ Unrelated("routine", "member")
    /\ op.kind \in BindingCalls /\ steps >= 2
    /\ <<"item">> \in DOMAIN symbols["routine"] /\ <<"item">> \in DOMAIN symbols["member"]
    /\ symbols["routine"][<<"item">>] # symbols["member"][<<"item">>]
    /\ types[symbols["routine"][<<"item">>]].shape # types[symbols["member"][<<"item">>]].shape

\* the positional and the keyword arguments of a call, each in source order
Positional(items) == SelectSeq(items, LAMBDA a : a.kw = "")
Keyword(items) == SelectSeq(items, LAMBDA a : a.kw # "")

\* arguments and kwarguments partition the actual arguments
Partitioned(items, res) ==
    /\ res.raised = "None"
    /\ Len(res.arguments) = Len(Positional(items))
    /\ \A i \in DOMAIN res.arguments :
           ~res.arguments[i].tuple /\ res.arguments[i].value = Positional(items)[i].v
    /\ Len(res.kwarguments) = Len(Keyword(items))
    /\ \A i \in DOMAIN res.kwarguments :
           /\ res.kwarguments[i].tuple
           /\ res.kwarguments[i].name = Keyword(items)[i].kw
           /\ res.kwarguments[i].value = Keyword(items)[i].v
    /\ Len(res.arguments) + Len(res.kwarguments) = Len(items)

\* C21: a translated call has every positional argument once in arguments and
\* every keyword argument once in kwarguments as a (name, value) pair, each group
\* in source order; a call without argument list gives two empty tuples
C21_CallPartition ==
    fe.n = 2 =>
        /\ Partitioned(fe.items, fe.res)
        /\ ~fe.haslist => fe.res.arguments = << >> /\ fe.res.kwarguments = << >>

\* C21 for calls that have an argument list
C21_CallPartitionWithList ==
    (fe.n = 2 /\ fe.haslist) => Partitioned(fe.items, fe.res)

\* C21: the translation of a call without argument list raised
C21_NoArgumentListFails ==
    fe.n = 2 /\ ~fe.haslist /\ fe.res.raised = "AttributeError"

\* a call with positional and keyword arguments mixed was translated
C21_MixedCallTranslated ==
    /\ fe.n = 2 /\ fe.haslist /\ fe.res.raised = "None"
    /\ Len(fe.res.arguments) >= 1 /\ Len(fe.res.kwarguments) >= 1

\* the field of the parent's derived type was found in its field list
FieldResolved ==
    /\ HasFieldList(fe.parent, fe.type_map)
    /\ fe.type_map.item \in {"ScalarField", "ArrayField"}

\* the shape the field list gives: that of an Array field, none for a Scalar field
FieldShape == IF fe.type_map.item = "ArrayField" THEN <<"f">> ELSE NoneSeq

\* C22: the external maps are the last resort: a type or shape passed down from
\* the enclosing declaration or resolved from the parent's field list is what
\* the reference gets, never the entry of the external maps
C22_MapsLastResort ==
    (fe.n = 2 /\ fe.res.raised = "None") =>
        /\ FieldResolved => fe.res.type = "FIELD" /\ fe.res.shape \in {FieldShape, fe.kwshape}
        /\ (~FieldResolved /\ fe.kwdtype # "None") => fe.res.type = fe.kwdtype
        /\ (~FieldResolved /\ fe.kwshape # NoneSeq) => fe.res.shape = fe.kwshape

\* C22 as the code has it: as above, but a field that the field list knows as a
\* Scalar gets the shape passed down or, without one, the entry of the external
\* shape map for the field's bare name
C22_MapsLastResortButScalarField ==
    (fe.n = 2 /\ fe.res.raised = "None") =>
        /\ FieldResolved => fe.res.type = "FIELD"
        /\ (FieldResolved /\ fe.type_map.item = "ArrayField") => fe.res.shape = <<"f">>
        /\ (FieldResolved /\ fe.type_map.item = "ScalarField") =>
               fe.res.shape = IF fe.kwshape # NoneSeq THEN fe.kwshape
                              ELSE ShapeEntry(fe.shape_map)
        /\ (~FieldResolved /\ fe.kwdtype # "None") => fe.res.type = fe.kwdtype
        /\ (~FieldResolved /\ fe.kwshape # NoneSeq) => fe.res.shape = fe.kwshape
        /\ (~FieldResolved /\ fe.kwdtype = "None") => fe.res.type = TypeEntry(fe.type_map)
        /\ (~FieldResolved /\ fe.kwshape = NoneSeq) => fe.res.shape = ShapeEntry(fe.shape_map)

\* C22: a field known as a Scalar was given the shape of the external map
C22_ScalarFieldShapedByMap ==
    /\ fe.n = 2 /\ fe.res.raised = "None" /\ fe.call = "Part_Ref"
    /\ FieldResolved /\ fe.type_map.item = "ScalarField"
    /\ fe.res.shape = <<"m">>

\* the references the translator constructed in the routines' scopes
References == { v \in DOMAIN vars : vars[v].scope \in UserScopes }

\* the type the reference's name is bound to now has a non-empty shape
ShapedNow(v) == TypeOf(v) # None /\ ~NoShape(types[TypeOf(v)].shape)

\* C23: at every moment a reference is an Array exactly when the current type of
\* its name has a non-empty shape or the reference carries dimensions
C23_ClassFollowsType ==
    \A v \in References :
        vars[v].cls = "Array" <=> (ShapedNow(v) \/ vars[v].dims # NoneSeq)

\* C23 as the code has it: the class is chosen when the reference is constructed,
\* from the type of that moment, and no later call changes it
C23_ClassFixedAtConstruction ==
    [][ /\ \A v \in DOMAIN vars : vars'[v].cls = vars[v].cls /\ vars'[v].dims = vars[v].dims
        /\ (op'.kind = "Variable" /\ op'.targ = Absent) =>
               (vars'[op'.obj].cls = "Array" <=>
                   (op'.dims # NoneSeq
                      \/ (Own(Heap, op'.scope, op'.name) # None
                            /\ ~NoShape(types[Own(Heap, op'.scope, op'.name)].shape)))) ]_allvars

\* C23: a reference constructed while its name was DEFERRED is still a Scalar
\* after a declaration gave the name a non-empty shape
C23_StaleScalar ==
    \E v \in References :
        /\ vars[v].cls = "Scalar" /\ v # op.obj
        /\ op.kind = "Variable" /\ op.targ # Absent /\ op.targ # None
        /\ vars[op.obj].name = vars[v].name /\ vars[op.obj].scope = vars[v].scope
        /\ vars[op.obj].cls = "Array"
        /\ ShapedNow(v)

\* the Comments of a sibling sequence that follow a Comment, and those that
\* start a run of two or more
FollowsComment(ir) ==
    { i \in DOMAIN ir : i > 1 /\ ir[i].kind = "Comment" /\ ir[i - 1].kind = "Comment" }
StartsRun(ir) ==
    { i \in DOMAIN ir : /\ ir[i].kind = "Comment" /\ i \notin FollowsComment(ir)
                        /\ i + 1 \in FollowsComment(ir) }
\* the last position of the run of Comments that starts at i
RunEnd(ir, i) ==
    CHOOSE k \in i..Len(ir) :
        /\ \A j \in i..k : ir[j].kind = "Comment"
        /\ k = Len(ir) \/ ir[k + 1].kind # "Comment"

\* the block that stands for the run starting at i
IsBlockOfRun(ir, i, b) ==
    LET k == RunEnd(ir, i)
        sourced == \A j \in i..k : ir[j].l0 # 0
    IN  /\ b.kind = "CommentBlock"
        /\ b.block = [j \in 1..(k - i + 1) |-> ir[i + j - 1].id]
        /\ b.l0 = (IF sourced THEN ir[i].l0 ELSE 0)
        /\ b.l1 = (IF sourced THEN ir[k].l1 ELSE 0)

\* C24: cluster_comments puts one CommentBlock in place of every maximal run of
\* two or more Comments, at the position of the run's first comment, holding the
\* run's comments in order, spanning from the first comment's first line to the
\* last comment's last line (no span if a comment has none); no two Comments are
\* adjacent afterwards and every other node is kept, in its order
C24_RunsClustered ==
    (fe.n >= 2 /\ fe.pass = "cluster_comments") =>
        LET ir == fe.ir
            out == fe.once
        IN  /\ { out[j].id : j \in DOMAIN out } = (DOMAIN ir) \ FollowsComment(ir)
            /\ \A j, k \in DOMAIN out : j < k => out[j].id < out[k].id
            /\ \A j \in DOMAIN out :
                   IF out[j].id \in StartsRun(ir)
                   THEN IsBlockOfRun(ir, out[j].id, out[j])
                   ELSE out[j] = ir[out[j].id]
            /\ \A j \in 1..(Len(out) - 1) :
                   ~(out[j].kind = "Comment" /\ out[j + 1].kind = "Comment")

\* C24 witness: two runs of Comments, one of them without source, became two
\* blocks around a node that stayed between them
C24_TwoRunsClustered ==
    /\ fe.n >= 2 /\ fe.pass = "cluster_comments" /\ Len(fe.ir) = 5
    /\ Len(fe.once) = 3
    /\ fe.once[1].kind = "CommentBlock" /\ fe.once[1].l0 = 1 /\ fe.once[1].l1 = 2
    /\ fe.once[2] = fe.ir[3]
    /\ fe.once[3].kind = "CommentBlock" /\ fe.once[3].l0 = 0
    /\ fe.once[3].block = <<4, 5>>

\* the Comments of ir that directly follow a Statement or Declaration, both with
\* source, and start within `reach` lines of the line where that node ends
InlineOf(ir, reach) ==
    { i \in DOMAIN ir :
        /\ i > 1 /\ ir[i].kind = "Comment" /\ ir[i - 1].kind \in {"Statement", "Declaration"}
        /\ ir[i].l0 # 0 /\ ir[i - 1].l0 # 0
        /\ ir[i].l0 - ir[i - 1].l1 \in 0..reach }

\* out is ir with exactly the Comments at `gone` merged into the comment slot of
\* the node before them and removed, everything else as it was
MergedExactly(ir, out, gone) ==
    /\ { out[j].id : j \in DOMAIN out } = (DOMAIN ir) \ gone
    /\ \A j, k \in DOMAIN out : j < k => out[j].id < out[k].id
    /\ \A j \in DOMAIN out :
           LET i == out[j].id
           IN  IF i + 1 \in gone THEN out[j] = [ir[i] EXCEPT !.comment = ir[i + 1].id]
               ELSE out[j] = ir[i]

\* C25: inline_comments merges a Comment into the preceding Statement or
\* Declaration, and removes it, exactly when both have a source span and the
\* comment starts on the line where that node ends or on the next line
C25_InlineSameOrNextLine ==
    (fe.n >= 2 /\ fe.pass = "inline_comments") =>
        MergedExactly(fe.ir, fe.once, InlineOf(fe.ir, 1))

\* C25 as the code has it: the comment is merged exactly when it starts on the
\* line where the preceding node ends; a comment on the next line stays
C25_InlineSameLine ==
    (fe.n >= 2 /\ fe.pass = "inline_comments") =>
        MergedExactly(fe.ir, fe.once, InlineOf(fe.ir, 0))

\* C25 witness: a comment on the last line of a two-line statement was merged
\* into the statement and removed
C25_SameLineMerged ==
    /\ fe.n >= 2 /\ fe.pass = "inline_comments"
    /\ Len(fe.ir) = 2 /\ fe.ir[1].kind = "Statement" /\ fe.ir[1].l1 = 2
    /\ fe.ir[2].kind = "Comment" /\ fe.ir[2].l0 = 2
    /\ Len(fe.once) = 1 /\ fe.once[1].comment = 2

\* C26: generating the kernel leaves the routine's spec and the pointer flags of
\* its declarations as they were, and a second generation gives the same text
C26_RoutineUnchanged ==
    /\ em.n >= 2 => em.o = em.ir
    /\ em.n = 3 => em.again = em.text

\* C26: the generation removed the declaration of a local variable from the
\* routine's spec and cleared a pointer flag
C26_SpecRewritten ==
    /\ em.n = 2
    /\ Len(em.o.spec) < Len(em.ir.spec)
    /\ \E i \in DOMAIN em.o.spec : \E j \in DOMAIN em.ir.spec :
           /\ em.ir.spec[j].variables = em.o.spec[i].variables
           /\ em.ir.spec[j].pointer /\ ~em.o.spec[i].pointer

\* C26, what holds: the variables and arguments of the routine are left alone,
\* the spec loses exactly the declarations holding a local variable, and the
\* declarations kept lose the pointer flag and nothing else
C26_OnlySpecRewritten ==
    em.n >= 2 =>
        /\ em.o.variables = em.ir.variables /\ em.o.arguments = em.ir.arguments
        /\ em.o.spec = WithoutPointers(WithoutLocalDeclarations(em.ir))

\* the lines of the generated text that declare variable v
DeclLinesOf(text, v) == SelectSeq(text, LAMBDA l : l.name = v)
IsParameter(o, v) ==
    \E i \in DOMAIN o.spec : o.spec[i].parameter /\
        \E k \in DOMAIN o.spec[i].variables : o.spec[i].variables[k] = v
IsArgument(o, v) == \E j \in DOMAIN o.arguments : o.arguments[j] = v
DeclaredOnce(o, text, v) ==
    DeclLinesOf(text, v) = << DeclLine(v, IF IsArgument(o, v) THEN "stream" ELSE "plain") >>
\* a declaration of the routine lists an argument together with a local variable
Mixed(o) ==
    \E i \in DOMAIN o.spec : \E k, m \in DOMAIN o.spec[i].variables :
        IsArgument(o, o.spec[i].variables[k]) /\ ~IsArgument(o, o.spec[i].variables[m])

\* C29: every non-parameter variable of the routine is declared by exactly one
\* line of the kernel text, a local variable by a plain line and an argument by
\* a stream-binding line, also when a declaration lists an argument with a local
C29_DeclaredOnce ==
    em.n >= 2 =>
        \A i \in DOMAIN em.ir.variables :
            ~IsParameter(em.ir, em.ir.variables[i]) =>
                DeclaredOnce(em.ir, em.text, em.ir.variables[i])

\* C29, what holds: the same for the routines none of whose declarations lists
\* an argument together with a local variable
C29_DeclaredOnceUnlessMixed ==
    em.n >= 2 /\ ~Mixed(em.ir) =>
        \A i \in DOMAIN em.ir.variables :
            ~IsParameter(em.ir, em.ir.variables[i]) =>
                DeclaredOnce(em.ir, em.text, em.ir.variables[i])

\* C29: a declaration listed argument x with local t, and the text generated
\* holds a line for t and none for x
C29_ArgumentUndeclared ==
    /\ em.n = 2 /\ Mixed(em.ir)
    /\ em.ir.spec = << Decl(<<"x", "t">>, FALSE, FALSE) >>
    /\ DeclLinesOf(em.text, "x") = << >> /\ Len(DeclLinesOf(em.text, "t")) = 1

\* the number of nested bodies entered and not left when the visit raised
RECURSIVE Entered(_)
Entered(o) ==
    IF o.kind \in {"Loop", "TypeDef"}
    THEN 1 + (IF \E i \in DOMAIN o.body : visit(o.body[i], 0).raised # "None"
              THEN Entered(o.body[CHOOSE i \in DOMAIN o.body : visit(o.body[i], 0).raised # "None"])
              ELSE 0)
    ELSE IF o.kind = "Subroutine" THEN 2
    ELSE 0

\* C30: when the visit of a nested body raises inside visit_Loop, visit_TypeDef
\* or visit_Subroutine, the generator's depth stays at the incremented value,
\* above the depth before the call; a later visit on the generator is indented
\* at that depth unless the caller put the depth back
C30_DepthLeftOnFailure ==
    /\ em.n >= 2 /\ em.res.raised # "None" =>
           /\ em.res.depth > em.before
           /\ em.res.depth = em.before + Entered(em.ir)
    /\ em.n >= 2 /\ em.res.raised = "None" => em.res.depth = em.before
    /\ em.n = 3 /\ em.res.raised # "None" =>
           \A i \in DOMAIN em.later.lines :
               em.later.lines[i].depth = IF em.restored THEN em.before ELSE em.res.depth

\* C30: a body nested in two loops raised, and the statement visited next on the
\* same generator is indented two levels deeper than the generator was made with
C30_IndentedTooDeep ==
    /\ em.n = 3 /\ em.res.raised = "ValueError" /\ ~em.restored
    /\ em.ir.kind = "Loop" /\ em.ir.body[1].kind = "Loop"
    /\ em.later.lines # << >>
    /\ \A i \in DOMAIN em.later.lines : em.later.lines[i].depth = em.before + 2

\* a call constructs a reference without a type in the member routine's scope,
\* for a name bound in the enclosing routine's scope only
ReferenceToParentName ==
    /\ op'.kind \in {"Scalar", "Array", "Variable"} /\ op'.scope = "member"
    /\ op'.targ \in {None, Absent}
    /\ op'.name \in DOMAIN symbols["routine"]
    /\ op'.name \notin DOMAIN symbols["member"]
HeapAfter == [symbols |-> symbols', types |-> types', vars |-> vars']

\* C28: a reference constructed in the child scope for a name bound only in the
\* parent scope binds nothing in the child: the child's non-recursive lookup
\* still finds nothing and the recursive lookup still gives the parent's type
C28_ReferenceBindsNothing ==
    [][ReferenceToParentName =>
          /\ lookupIn(HeapAfter, scopeParent', "member", op'.name, FALSE) = None
          /\ lookupIn(HeapAfter, scopeParent', "member", op'.name, TRUE)
               = symbols["routine"][op'.name]]_allvars

\* C28, what holds: the construction binds a new DEFERRED placeholder in the
\* child scope, which both lookups from the child return from then on and
\* which the child owns; the parent's binding is left as it was
C28_ReferenceShadowsParent ==
    [][ReferenceToParentName =>
          LET t == lookupIn(HeapAfter, scopeParent', "member", op'.name, FALSE)
          IN  /\ t # None /\ t > Len(types) /\ types'[t].dtype = "DEFERRED"
              /\ lookupIn(HeapAfter, scopeParent', "member", op'.name, TRUE) = t
              /\ get_symbol_scope_in(HeapAfter, scopeParent', "member", op'.name) = "member"
              /\ symbols'["routine"][op'.name] = symbols["routine"][op'.name]]_allvars

\* C28: the routine declares item with a type, a reference to item was then
\* constructed in the member routine, and item resolves from the member to a
\* DEFERRED placeholder of the member's own scope
C28_ParentShadowed ==
    /\ op.kind = "Variable" /\ op.scope = "member" /\ op.targ = Absent
    /\ op.name \in DOMAIN symbols["routine"]
    /\ types[symbols["routine"][op.name]].dtype # "DEFERRED"
    /\ lookup("member", op.name, FALSE) # None
    /\ types[lookup("member", op.name, TRUE)].dtype = "DEFERRED"
    /\ get_symbol_scope("member", op.name) = "member"

\* C27: after a scope is torn down, reading the type of a variable attached to
\* it gives None or raises, never the type it had before, for Scalars and
\* Arrays alike, and generating code from the variable fails
C27_NoStaleType ==
    fe # NoFront /\ fe.n = 2 =>
        /\ fe.read.raised # "None" \/ fe.read.type = None
        /\ fe.text # "text"

\* C27: the owner of a scope discarded it while a Scalar declared in it was
\* alive, and the Scalar reads the type it had before and is generated as text
C27_StaleScalarType ==
    /\ fe # NoFront /\ fe.n = 2 /\ fe.how = "discard"
    /\ vars[fe.var].cls = "Scalar"
    /\ fe.read.raised = "None" /\ fe.read.type # None
    /\ fe.read.type = fe.before[fe.var]
    /\ fe.text = "text"

\* C27, what holds: after the bindings are cleared every read gives None; an
\* Array whose scope object is gone raises AttributeError; in every other case
\* the read gives the type the variable had before; generation of the symbol
\* never fails
C27_StaleUnlessClearedOrGone ==
    fe # NoFront /\ fe.n = 2 =>
        /\ fe.read = (IF vars[fe.var].cls = "Array" /\ fe.gone
                      THEN TypeRead("AttributeError", None)
                      ELSE IF fe.how = "clear" THEN TypeRead("None", None)
                      ELSE TypeRead("None", fe.before[fe.var]))
        /\ fe.gone => StrongHolders(fe.scope) = {}
        /\ fe.text = "text"

====
